---------------------------- MODULE Spec2Model ----------------------------
(***************************************************************************)
(* Bond calculator: the valuation engine (calc.js), the calendar and       *)
(* day-count arithmetic (daycount.js) and the request handlers that call   *)
(* them (index.js), as a state machine whose actions are the engine's      *)
(* operations.                                                             *)
(*                                                                         *)
(* JavaScript numbers are modelled as decimal floating-point numbers with  *)
(* a mantissa of PrecLimbs base-10^4 limbs (13 to 16 significant digits)   *)
(* and an unbounded exponent, every operation rounded to nearest; the      *)
(* non-finite numbers (NaN, +-Infinity, and what Number() makes of a       *)
(* non-numeric value) are one value, NaN.                                  *)
(***************************************************************************)
EXTENDS Integers, Sequences, FiniteSets, TLC

(***************************************************************************)
(* Natural numbers as little-endian sequences of base-10^4 limbs, without  *)
(* high zero limbs (zero is the empty sequence).                           *)
(***************************************************************************)
Base == 10^4
HalfBase == Base \div 2
PrecLimbs == 4

Limb(a, i) == IF i >= 1 /\ i <= Len(a) THEN a[i] ELSE 0
SetMax(S) == CHOOSE m \in S : \A k \in S : k <= m
\* the sequence f with every element computed, once
Elements(f) == f \o <<>>

NTrim(a) ==
  LET nz == {i \in 1..Len(a) : a[i] # 0}
  IN  IF nz = {} THEN <<>> ELSE SubSeq(a, 1, SetMax(nz))

RECURSIVE NFromInt(_)
NFromInt(n) == IF n = 0 THEN <<>> ELSE <<n % Base>> \o NFromInt(n \div Base)

RECURSIVE NToIntAt(_, _)
NToIntAt(a, i) == IF i > Len(a) THEN 0 ELSE a[i] + Base * NToIntAt(a, i + 1)
NToInt(a) == NToIntAt(a, 1)

\* -1, 0, 1 as a is below, at or above b
NCmp(a, b) ==
  IF Len(a) # Len(b) THEN (IF Len(a) > Len(b) THEN 1 ELSE -1)
  ELSE LET d == {i \in 1..Len(a) : a[i] # b[i]}
       IN  IF d = {} THEN 0 ELSE IF a[SetMax(d)] > b[SetMax(d)] THEN 1 ELSE -1

\* a + b: limb i takes a carry when a limb below it overflows and every limb
\* between the two is full
NAdd(a, b) ==
  LET n == IF Len(a) > Len(b) THEN Len(a) ELSE Len(b)
      s == Elements([i \in 1..(n + 1) |-> Limb(a, i) + Limb(b, i)])
      c == [i \in 1..(n + 1) |->
              IF \E j \in 1..(i - 1) :
                   s[j] >= Base /\ \A k \in (j + 1)..(i - 1) : s[k] = Base - 1
              THEN 1 ELSE 0]
  IN  NTrim(Elements([i \in 1..(n + 1) |-> (s[i] + c[i]) % Base]))

\* a - b for a >= b: limb i lends when a limb below it is short and every limb
\* between the two is level
NSub(a, b) ==
  LET w == [i \in 1..Len(a) |->
              IF \E j \in 1..(i - 1) :
                   a[j] < Limb(b, j) /\ \A k \in (j + 1)..(i - 1) : a[k] = Limb(b, k)
              THEN 1 ELSE 0]
  IN  NTrim(Elements([i \in 1..Len(a) |-> (a[i] - Limb(b, i) - w[i] + Base) % Base]))

\* a * k for a limb-sized k (0 <= k < Base)
NMulSmall(a, k) ==
  NAdd(Elements([i \in 1..Len(a) |-> (a[i] * k) % Base]),
       Elements([i \in 1..(Len(a) + 1) |-> IF i = 1 THEN 0 ELSE (a[i - 1] * k) \div Base]))

\* a * Base^k and a \div Base^k
NShiftL(a, k) ==
  IF a = <<>> THEN a
  ELSE Elements([i \in 1..(Len(a) + k) |-> IF i <= k THEN 0 ELSE a[i - k]])
NShiftR(a, k) == IF Len(a) <= k THEN <<>> ELSE SubSeq(a, k + 1, Len(a))

\* the sum of the limb products of a and b that land on limb k
RECURSIVE ColSum(_, _, _, _)
ColSum(a, b, k, j) ==
  IF j = 0 THEN 0 ELSE Limb(a, k + 1 - j) * b[j] + ColSum(a, b, k, j - 1)
NMul(a, b) ==
  LET n == Len(a) + Len(b)
      c == Elements([k \in 1..n |-> ColSum(a, b, k, Len(b))])
  IN  NAdd(NAdd(Elements([k \in 1..n |-> c[k] % Base]),
                Elements([k \in 1..n |->
                            IF k = 1 THEN 0 ELSE (c[k - 1] \div Base) % Base])),
           Elements([k \in 1..n |-> IF k <= 2 THEN 0 ELSE c[k - 2] \div (Base * Base)]))

\* the largest d with d * b <= r, for r < b * Base and b's high limb at least
\* HalfBase: at most two below the quotient of their high limbs
QFits(r, b, d) == NCmp(NMulSmall(b, d), r) <= 0
QFrom(r, b, qhat) ==
  IF QFits(r, b, qhat) THEN qhat ELSE IF QFits(r, b, qhat - 1) THEN qhat - 1 ELSE qhat - 2
QDigit(r, b) ==
  LET q2 == (Limb(r, Len(b) + 1) * Base + Limb(r, Len(b))) \div b[Len(b)]
  IN  IF NCmp(r, b) < 0 THEN 0 ELSE QFrom(r, b, IF q2 > Base - 1 THEN Base - 1 ELSE q2)

\* long division, st = <<i, q, r>>: q and r are the quotient and the remainder
\* of the limbs of a above limb i by b
DivEmit(b, st, r1, d) == <<st[1] - 1, <<d>> \o st[2], NSub(r1, NMulSmall(b, d))>>
DivDigit(b, st, r1) == DivEmit(b, st, r1, QDigit(r1, b))
DivStep(a, b, st) == DivDigit(b, st, NTrim(<<a[st[1]]>> \o st[3]))
RECURSIVE DivLoop(_, _, _)
DivLoop(a, b, st) == IF st[1] = 0 THEN NTrim(st[2]) ELSE DivLoop(a, b, DivStep(a, b, st))
\* a \div b for b # 0, both scaled to bring b's high limb to HalfBase or more
DivFrom(a, b) ==
  IF Len(a) < Len(b) THEN <<>>
  ELSE DivLoop(a, b, <<Len(a) - Len(b) + 1, <<>>, SubSeq(a, Len(a) - Len(b) + 2, Len(a))>>)
NDiv(a, b) ==
  LET f == Base \div (b[Len(b)] + 1) IN DivFrom(NMulSmall(a, f), NMulSmall(b, f))

\* a / Base^k rounded to the nearest natural (halves up)
NRoundShiftR(a, k) ==
  IF k = 0 THEN a
  ELSE IF Limb(a, k) >= HalfBase THEN NAdd(NShiftR(a, k), <<1>>) ELSE NShiftR(a, k)

(***************************************************************************)
(* JavaScript numbers.  A finite number is neg, mag and exp: the value     *)
(* (-1)^neg * mag * Base^exp, with mag a natural of at most PrecLimbs      *)
(* limbs and no low zero limb (zero is mag = <<>>, exp = 0), so that equal *)
(* numbers are equal records.  Every operation rounds its exact result to  *)
(* PrecLimbs limbs, to nearest.                                            *)
(***************************************************************************)
NaN == [fin |-> FALSE, neg |-> FALSE, mag |-> <<>>, exp |-> 0]
IsFinite(x) == x.fin

\* <<mag, exp>> without low zero limbs
RECURSIVE StripLow(_)
StripLow(p) ==
  IF p[1] = <<>> THEN <<p[1], 0>>
  ELSE IF p[1][1] = 0 THEN StripLow(<<Tail(p[1]), p[2] + 1>>) ELSE p

\* <<mag, exp>> rounded to PrecLimbs limbs
RECURSIVE RoundTo(_, _)
RoundTo(mag, exp) ==
  IF Len(mag) <= PrecLimbs THEN <<mag, exp>>
  ELSE RoundTo(NRoundShiftR(mag, Len(mag) - PrecLimbs), exp + Len(mag) - PrecLimbs)

MkNum(neg, mag, exp) ==
  LET canon(c) == [fin |-> TRUE, neg |-> neg /\ c[1] # <<>>, mag |-> c[1], exp |-> c[2]]
  IN  IF mag = <<>> THEN [fin |-> TRUE, neg |-> FALSE, mag |-> <<>>, exp |-> 0]
      ELSE canon(StripLow(RoundTo(NTrim(mag), exp)))

FromInt(n) == MkNum(n < 0, NFromInt(IF n < 0 THEN -n ELSE n), 0)
Zero == [fin |-> TRUE, neg |-> FALSE, mag |-> <<>>, exp |-> 0]
One == [fin |-> TRUE, neg |-> FALSE, mag |-> <<1>>, exp |-> 0]

Neg(x) == IF ~x.fin THEN NaN ELSE [x EXCEPT !.neg = ~x.neg /\ x.mag # <<>>]
Abs(x) == IF ~x.fin THEN NaN ELSE [x EXCEPT !.neg = FALSE]

\* the limb position above the highest limb of x
Top(x) == x.exp + Len(x.mag)

\* <<neg, mag>> of the sum of two signed naturals
SumMag(xneg, xm, yneg, ym) ==
  IF xneg = yneg THEN <<xneg, NAdd(xm, ym)>>
  ELSE IF NCmp(xm, ym) >= 0 THEN <<xneg, NSub(xm, ym)>>
  ELSE <<yneg, NSub(ym, xm)>>
Signed(s, e) == MkNum(s[1], s[2], e)
Plus(x, y) ==
  IF ~x.fin \/ ~y.fin THEN NaN
  ELSE IF x.mag = <<>> THEN y
  ELSE IF y.mag = <<>> THEN x
  ELSE IF Top(x) - Top(y) > PrecLimbs + 1 THEN x
  ELSE IF Top(y) - Top(x) > PrecLimbs + 1 THEN y
  ELSE LET e == IF x.exp < y.exp THEN x.exp ELSE y.exp
       IN  Signed(SumMag(x.neg, NShiftL(x.mag, x.exp - e),
                         y.neg, NShiftL(y.mag, y.exp - e)), e)
Minus(x, y) == Plus(x, Neg(y))
Times(x, y) ==
  IF ~x.fin \/ ~y.fin THEN NaN
  ELSE MkNum(x.neg # y.neg, NMul(x.mag, y.mag), x.exp + y.exp)
\* a division by zero gives a non-finite number
Over(x, y) ==
  IF ~x.fin \/ ~y.fin \/ y.mag = <<>> THEN NaN
  ELSE LET s == IF Len(x.mag) > PrecLimbs + 1 + Len(y.mag) THEN 0
                ELSE PrecLimbs + 1 + Len(y.mag) - Len(x.mag)
       IN  MkNum(x.neg # y.neg, NDiv(NShiftL(x.mag, s), y.mag), x.exp - s - y.exp)
Ratio(n, d) == Over(FromInt(n), FromInt(d))
\* the decimal literal n / Base^k
Decimal(n, k) == MkNum(n < 0, NFromInt(IF n < 0 THEN -n ELSE n), -k)

\* -1, 0, 1 as |x| is below, at or above |y|, for finite non-zero x, y
CmpMag(x, y) ==
  IF Top(x) # Top(y) THEN (IF Top(x) > Top(y) THEN 1 ELSE -1)
  ELSE LET aligned(e) == NCmp(NShiftL(x.mag, x.exp - e), NShiftL(y.mag, y.exp - e))
       IN  aligned(IF x.exp < y.exp THEN x.exp ELSE y.exp)
\* -1, 0, 1 as x is below, at or above y, for finite x, y
Cmp(x, y) ==
  IF x = y THEN 0
  ELSE IF x.mag = <<>> THEN (IF y.neg THEN 1 ELSE -1)
  ELSE IF y.mag = <<>> \/ x.neg # y.neg THEN (IF x.neg THEN -1 ELSE 1)
  ELSE CmpMag(IF x.neg THEN y ELSE x, IF x.neg THEN x ELSE y)
\* every comparison with a non-finite operand is false, as with NaN
Lt(x, y) == x.fin /\ y.fin /\ Cmp(x, y) < 0
Le(x, y) == x.fin /\ y.fin /\ Cmp(x, y) <= 0
Gt(x, y) == Lt(y, x)
Ge(x, y) == Le(y, x)

\* Number(x.toFixed(8)): x rounded to 8 decimal places
toFixed8(x) ==
  IF ~x.fin THEN NaN
  ELSE IF x.exp >= -2 THEN x
  ELSE IF -2 - x.exp > Len(x.mag) THEN Zero
  ELSE MkNum(x.neg, NRoundShiftR(x.mag, -2 - x.exp), -2)

\* the value of a whole number x
WholePart(x) ==
  IF x.exp >= 0 THEN NToInt(NShiftL(x.mag, x.exp)) ELSE NToInt(NShiftR(x.mag, -x.exp))

\* Math.pow(base, exponent) for a whole exponent >= 0
\* by squaring, st = <<result, power, n>>: result * power^n is the answer
RECURSIVE PowLoop(_)
PowLoop(st) ==
  IF st[3] = 0 THEN st[1]
  ELSE PowLoop(<<IF st[3] % 2 = 1 THEN Times(st[1], st[2]) ELSE st[1],
                 IF st[3] > 1 THEN Times(st[2], st[2]) ELSE st[2],
                 st[3] \div 2>>)
PowInt(base, n) == PowLoop(<<One, base, n>>)
MathPow(base, exponent) ==
  IF ~base.fin \/ ~exponent.fin THEN NaN ELSE PowInt(base, WholePart(exponent))

(***************************************************************************)
(* daycount.js.  An ISO date string "YYYY-MM-DD" is the record of its      *)
(* three numbers; a Date at UTC midnight is its day number since           *)
(* 1970-01-01 (its time value is that many MS_PER_DAY).                    *)
(***************************************************************************)
ISO(y, m, d) == [kind |-> "iso", y |-> y, m |-> m, d |-> d]
NullDate == [kind |-> "null", y |-> 0, m |-> 0, d |-> 0]
\* a string that is no date, such as 'soon'
NoDate == [kind |-> "text", y |-> 0, m |-> 0, d |-> 0]
\* the string YYYY-MM-DDTHH:MM+HH:MM: a day, the minutes of its time of day
\* and the minutes of its offset east of UTC
DateTime(y, m, d, minutes, offset) ==
  [kind |-> "datetime", y |-> y, m |-> m, d |-> d, minutes |-> minutes, offset |-> offset]
MS_PER_DAY == FromInt(24 * 60 * 60 * 1000)

\* days from 1970-01-01 to the civil date y-m-d (proleptic Gregorian)
DaysFromCivil(y, m, d) ==
  LET days(era, yoe, doy) ==
        era * 146097 + yoe * 365 + yoe \div 4 - yoe \div 100 + doy - 719468
      ofYear(yy, mp) == days(yy \div 400, yy % 400, (153 * mp + 2) \div 5 + d - 1)
  IN  ofYear(IF m <= 2 THEN y - 1 ELSE y, IF m > 2 THEN m - 3 ELSE m + 9)

\* the civil date of a day number
CivilFromDays(z) ==
  LET civil(era, yoe, doy, mp) ==
        [y |-> yoe + era * 400 + (IF mp >= 10 THEN 1 ELSE 0),
         m |-> IF mp < 10 THEN mp + 3 ELSE mp - 9,
         d |-> doy - (153 * mp + 2) \div 5 + 1]
      month(era, yoe, doy) == civil(era, yoe, doy, (5 * doy + 2) \div 153)
      day(era, doe, yoe) ==
        month(era, yoe, doe - (365 * yoe + yoe \div 4 - yoe \div 100))
      year(era, doe) ==
        day(era, doe, (doe - doe \div 1460 + doe \div 36524 - doe \div 146096) \div 365)
      era(zz) == year(zz \div 146097, zz % 146097)
  IN  era(z + 719468)

\* Date.UTC(year, monthIndex, day): months and days outside their range carry over
DateUTC(year, monthIndex, day) ==
  DaysFromCivil(year + (monthIndex \div 12), (monthIndex % 12) + 1, 1) + day - 1

\* coerceDate.  A falsy value and a string that new Date cannot parse throw
\* and leave no Date; a string of the form YYYY-MM-DD goes to Date.UTC as it
\* is; a date-time string with a UTC offset is parsed by new Date as the
\* instant it names, of which the UTC day is kept.
coerceDate(value) ==
  IF value.kind \in {"null", "text"} THEN value
  ELSE IF value.kind = "datetime"
    THEN (DateUTC(value.y, value.m - 1, value.d) * 1440 + value.minutes - value.offset)
           \div 1440
  ELSE DateUTC(value.y, value.m - 1, value.d)

\* date.toISOString().slice(0, 10)
toISOString(date) ==
  LET iso(c) == ISO(c.y, c.m, c.d) IN iso(CivilFromDays(date))
toISO(value) == toISOString(coerceDate(value))
fromISO(value) == coerceDate(value)

\* endDate - startDate of two Dates, in milliseconds: NaN unless both have a
\* time value
DateDiff(endDate, startDate) ==
  IF endDate \notin Int \/ startDate \notin Int THEN NaN
  ELSE Times(FromInt(endDate - startDate), MS_PER_DAY)

compareISO(a, b) == DateDiff(fromISO(a), fromISO(b))

\* The value a function returns, or the error it throws
Ok(v) == [err |-> "none", val |-> v]
Throw(e) == [err |-> e, val |-> NaN]

\* toISO of any value: the string it returns or the error coerceDate throws
toISOResult(value) ==
  IF value.kind \in {"null", "text"} THEN Throw("InvalidDate") ELSE Ok(toISO(value))

\* String.prototype.toUpperCase on the convention and mode names in use
ToUpperCase(s) ==
  CASE s = "semi" -> "SEMI"
    [] s = "annual" -> "ANNUAL"
    [] s = "act360" -> "ACT360"
    [] s = "modfollow" -> "MODFOLLOW"
    [] OTHER -> s

\* the 30/360 day count that takes every end day of 31 as 30
thirty360European(c1, c2) ==
  LET d1 == IF c1.d = 31 THEN 30 ELSE c1.d
      d2 == IF c2.d = 31 THEN 30 ELSE c2.d
  IN  360 * (c2.y - c1.y) + 30 * (c2.m - c1.m) + (d2 - d1)
\* the 30/360 US day count from civil date c1 to civil date c2
thirty360(c1, c2) ==
  LET d1 == IF c1.d = 31 THEN 30 ELSE c1.d
      d2 == IF c2.d = 31 /\ d1 >= 30 THEN 30 ELSE c2.d
  IN  360 * (c2.y - c1.y) + 30 * (c2.m - c1.m) + (d2 - d1)
\* yearFrac that goes on to the convention when endDate <= startDate
yearFracSigned(convention, startDate, endDate) ==
  IF convention = "ACT365F"
    THEN Ok(Over(DateDiff(endDate, startDate), Times(MS_PER_DAY, FromInt(365))))
  ELSE IF convention = "ACT360"
    THEN Ok(Over(DateDiff(endDate, startDate), Times(MS_PER_DAY, FromInt(360))))
  ELSE IF convention \in {"30360US", "30/360US", "30/360-US"}
    THEN Ok(Over(FromInt(thirty360(CivilFromDays(startDate), CivilFromDays(endDate))),
                 FromInt(360)))
  ELSE Throw("UnsupportedConvention")
\* yearFrac once its convention is upper-cased and its dates are coerced
yearFracBetween(convention, startDate, endDate) ==
  IF endDate <= startDate THEN Ok(Zero)
  ELSE IF convention = "ACT365F"
    THEN Ok(Over(DateDiff(endDate, startDate), Times(MS_PER_DAY, FromInt(365))))
  ELSE IF convention = "ACT360"
    THEN Ok(Over(DateDiff(endDate, startDate), Times(MS_PER_DAY, FromInt(360))))
  ELSE IF convention \in {"30360US", "30/360US", "30/360-US"}
    THEN Ok(Over(FromInt(thirty360(CivilFromDays(startDate), CivilFromDays(endDate))),
                 FromInt(360)))
  ELSE Throw("UnsupportedConvention")
yearFrac(dc, start, end) ==
  yearFracBetween(ToUpperCase(IF dc = "" THEN "ACT365F" ELSE dc), coerceDate(start),
                  coerceDate(end))

\* Date getters and setters, in UTC: a day or month outside its range
\* carries over, as in Date.UTC, and a Date that has no time value keeps
\* none
getUTCDay(date) == (date + 4) % 7
getUTCDate(date) == CivilFromDays(date).d
getUTCMonth(date) == CivilFromDays(date).m - 1
getUTCFullYear(date) == CivilFromDays(date).y
setUTCDate(date, day) ==
  IF date \notin Int THEN date ELSE DateUTC(getUTCFullYear(date), getUTCMonth(date), day)
setUTCMonth(date, monthIndex) ==
  IF date \notin Int THEN date
  ELSE DateUTC(getUTCFullYear(date), monthIndex, getUTCDate(date))

\* isWeekend of a Date
isWeekend(date) == getUTCDay(date) = 0 \/ getUTCDay(date) = 6

daysInMonth(year, monthIndexZeroBased) == getUTCDate(DateUTC(year, monthIndexZeroBased + 1, 0))

endOfMonth(value) ==
  LET first == setUTCDate(coerceDate(value), 1)
  IN  toISOString(setUTCDate(setUTCMonth(first, getUTCMonth(first) + 1), 0))

addDays(value, days) ==
  toISOString(setUTCDate(coerceDate(value), getUTCDate(coerceDate(value)) + days))

\* addMonths that sets the day to anchorDay, past the end of a shorter month
addMonthsUnclamped(value, months, anchorDay) ==
  LET moved == setUTCMonth(setUTCDate(coerceDate(value), 1),
                           getUTCMonth(coerceDate(value)) + months)
  IN  toISOString(setUTCDate(moved, anchorDay))
\* addMonths with a finite anchorDay
addMonths(value, months, anchorDay) ==
  LET moved == setUTCMonth(setUTCDate(coerceDate(value), 1),
                           getUTCMonth(coerceDate(value)) + months)
      lastDay == daysInMonth(getUTCFullYear(moved), getUTCMonth(moved))
  IN  toISOString(setUTCDate(moved, IF anchorDay < lastDay THEN anchorDay ELSE lastDay))
\* addMonths without an anchorDay: the reference day is the day of value
addMonthsFrom(value, months) == addMonths(value, months, getUTCDate(coerceDate(value)))

\* the loop that leaves a weekend date where it is
stayPut(date, step) == date
\* while (isWeekend(date)) date.setUTCDate(date.getUTCDate() + step)
RECURSIVE whileWeekend(_, _)
whileWeekend(date, step) ==
  IF isWeekend(date) THEN whileWeekend(setUTCDate(date, getUTCDate(date) + step), step)
  ELSE date

\* rollBusiness with every roll type rolled forward
rollForward(value, roll) == toISOString(whileWeekend(coerceDate(value), 1))
rollBusiness(value, roll) ==
  LET rollType == ToUpperCase(IF roll = "" THEN "FOLLOWING" ELSE roll)
      original == coerceDate(value)
      forwardDate == whileWeekend(original, 1)
      backward == whileWeekend(original, -1)
  IN  IF ~isWeekend(original) THEN toISOString(original)
      ELSE IF rollType = "FOLLOWING" THEN toISOString(forwardDate)
      ELSE IF rollType = "PRECEDING" THEN toISOString(backward)
      ELSE IF rollType = "MODFOLLOW" \/ rollType = "MODIFIEDFOLLOWING"
        THEN IF getUTCMonth(forwardDate) = getUTCMonth(original)
               THEN toISOString(forwardDate)
               ELSE toISOString(backward)
      ELSE toISOString(forwardDate)

(***************************************************************************)
(* calc.js                                                                 *)
(***************************************************************************)
PercentThreshold == Decimal(15000, 1)    \* 1.5
DefaultYield == Decimal(500, 1)          \* 0.05

\* normalizeYield with the percent threshold at 0.1
normalizeYieldLow(value, fallback) ==
  IF ~IsFinite(value) THEN fallback
  ELSE IF Gt(Abs(value), Decimal(1000, 1)) THEN Over(value, FromInt(100))
  ELSE value
normalizeYield(value, fallback) ==
  IF ~IsFinite(value) THEN fallback
  ELSE IF Gt(Abs(value), PercentThreshold) THEN Over(value, FromInt(100))
  ELSE value

\* compFrequency that knows annual compounding only
compFrequencyAnnual(comp) == 1
compFrequency(comp) ==
  LET mode == ToUpperCase(IF comp = "" THEN "ANNUAL" ELSE comp)
  IN  IF mode = "SEMI" \/ mode = "SEMIANNUAL" THEN 2 ELSE 1

\* Array.prototype.sort with compareISO on the dates: ascending and stable
InsertFlow(sorted, flow) ==
  LET at(k) == SubSeq(sorted, 1, k) \o <<flow>> \o SubSeq(sorted, k + 1, Len(sorted))
  IN  at(Cardinality({i \in 1..Len(sorted) :
                        Le(compareISO(sorted[i].date, flow.date), Zero)}))
RECURSIVE SortFlows(_)
SortFlows(flows) ==
  IF flows = <<>> THEN <<>>
  ELSE InsertFlow(SortFlows(SubSeq(flows, 1, Len(flows) - 1)), flows[Len(flows)])

MapFlows(flows) ==
  Elements([i \in 1..Len(flows) |->
              [date |-> toISO(flows[i].date), amount |-> flows[i].amount]])
normalizeCashflows(flows) ==
  LET finite(flow) == IsFinite(flow.amount)
  IN  SortFlows(SelectSeq(MapFlows(flows), finite))

\* the filter with > for >=, and the filter left out
StrictlyAfter(flows, settlement) ==
  LET keep(flow) == Gt(compareISO(flow.date, settlement), Zero)
  IN  SelectSeq(flows, keep)
KeepEvery(flows, settlement) == flows
\* the cashflows of the list dated on or after settlement
OnOrAfter(flows, settlement) ==
  LET keep(flow) == Ge(compareISO(flow.date, settlement), Zero)
  IN  SelectSeq(flows, keep)

\* discountFactor once its frequency and its year fraction t are computed
discountAt(y, freq, t) ==
  IF t.err # "none" THEN t
  ELSE IF Le(t.val, Zero) THEN Ok(One)
  ELSE Ok(Over(One, MathPow(Plus(One, Over(y, FromInt(freq))),
                            Times(t.val, FromInt(freq)))))
discountFactor(settlementISO, paymentISO, y, dc, comp) ==
  discountAt(y, compFrequency(comp), yearFrac(dc, settlementISO, paymentISO))

\* futureFlows.reduce((acc, flow) => acc + flow.amount * df, 0) from flow i on
RECURSIVE SumPV(_, _, _, _, _, _, _)
SumPV(settlement, flows, y, dc, comp, i, acc) ==
  IF i > Len(flows) THEN Ok(acc)
  ELSE LET add(df) ==
             IF df.err # "none" THEN df
             ELSE SumPV(settlement, flows, y, dc, comp, i + 1,
                        Plus(acc, Times(flows[i].amount, df.val)))
       IN  add(discountFactor(settlement, flows[i].date, y, dc, comp))

\* priceFromYield after its yield is normalized
PriceAt(settlement, flows, y, dc, comp) ==
  LET rounded(price) == IF price.err # "none" THEN price ELSE Ok(toFixed8(price.val))
  IN  rounded(SumPV(settlement, OnOrAfter(normalizeCashflows(flows), settlement), y, dc,
                    comp, 1, Zero))

priceFromYield(settlementISO, flows, yieldInput, dc, comp) ==
  PriceAt(toISO(settlementISO), flows, normalizeYield(yieldInput, DefaultYield), dc, comp)

\* ytmFromPrice: the solver's constants
maxIterations == 100
looseTolerance == Decimal(1, 1)          \* 1e-4
tolerance == Decimal(1, 2)               \* 1e-8
epsilon == Decimal(1000, 2)              \* 1e-5
FlatDerivative == Decimal(100, 3)        \* 1e-10
FixedStep == Decimal(100, 1)             \* 0.01
DomainFloor == Decimal(-9900, 1)         \* -0.99
ResetBelowFloor == FromInt(-1)
ResetYield == Decimal(1, 1)              \* 0.0001
SeedHigh == Decimal(500, 1)              \* 0.05
SeedLow == Decimal(200, 1)               \* 0.02
ParPrice == FromInt(100)

\* ytmFromPrice answering a target that is no number with 0
ytmEnterLenient(settlementISO, flows, targetPrice, dc, comp) ==
  LET at(pc, how, y) ==
        [pc |-> pc, how |-> how, err |-> "none", result |-> IF pc = "loop" THEN NaN ELSE Zero,
         settlement |-> toISO(settlementISO),
         cashflows |-> OnOrAfter(normalizeCashflows(flows), toISO(settlementISO)),
         priceTarget |-> targetPrice, dc |-> dc, comp |-> comp, y |-> y, iteration |-> 0]
  IN  IF OnOrAfter(normalizeCashflows(flows), toISO(settlementISO)) = <<>>
           \/ ~IsFinite(targetPrice)
        THEN at("returned", "empty", NaN)
      ELSE at("loop", "none", IF Ge(targetPrice, ParPrice) THEN SeedHigh ELSE SeedLow)
\* ytmFromPrice up to its loop: returned, threw, or at the loop's test
ytmEnter(settlementISO, flows, targetPrice, dc, comp) ==
  LET at(settlement, cashflows, pc, how, err, result, y) ==
        [pc |-> pc, how |-> how, err |-> err, result |-> result,
         settlement |-> settlement, cashflows |-> cashflows,
         priceTarget |-> targetPrice, dc |-> dc, comp |-> comp, y |-> y,
         iteration |-> 0]
      enter(settlement, cashflows) ==
        IF cashflows = <<>>
          THEN at(settlement, cashflows, "returned", "empty", "none", Zero, NaN)
        ELSE IF ~IsFinite(targetPrice)
          THEN at(settlement, cashflows, "threw", "none", "InvalidTargetPrice", NaN, NaN)
        ELSE at(settlement, cashflows, "loop", "none", "none", NaN,
                normalizeYield(IF Ge(targetPrice, ParPrice) THEN SeedHigh ELSE SeedLow,
                               DefaultYield))
      filter(settlement) == enter(settlement, OnOrAfter(normalizeCashflows(flows),
                                                        settlement))
  IN  filter(toISO(settlementISO))

\* one pass of the loop body, entered with iteration < maxIterations
ytmPriceAt(st, y) == priceFromYield(st.settlement, st.cashflows, y, st.dc, st.comp)
ytmIterate(st) ==
  LET it == [st EXCEPT !.iteration = st.iteration + 1]
      clamp(y) == IF ~IsFinite(y) \/ Le(y, DomainFloor) THEN ResetYield ELSE y
      step(diff, derivative) ==
        IF Lt(Abs(derivative), FlatDerivative)
          THEN Plus(st.y, IF Gt(diff, Zero) THEN FixedStep ELSE Neg(FixedStep))
        ELSE Minus(st.y, Over(diff, derivative))
      slope(priceUp, priceDown) ==
        Over(Minus(priceUp, priceDown), Times(FromInt(2), epsilon))
      next(diff, priceUp, priceDown) ==
        IF priceUp.err # "none" THEN [it EXCEPT !.pc = "threw", !.err = priceUp.err]
        ELSE IF priceDown.err # "none"
          THEN [it EXCEPT !.pc = "threw", !.err = priceDown.err]
        ELSE [it EXCEPT !.y = clamp(step(diff, slope(priceUp.val, priceDown.val)))]
      test(diff, priceUp, priceDown) ==
        IF Lt(Abs(diff), tolerance)
          THEN [it EXCEPT !.pc = "returned", !.how = "converged",
                          !.result = toFixed8(st.y)]
        ELSE next(diff, priceUp, priceDown)
      body(price, priceUp, priceDown) ==
        IF price.err # "none" THEN [it EXCEPT !.pc = "threw", !.err = price.err]
        ELSE test(Minus(price.val, st.priceTarget), priceUp, priceDown)
  IN  body(ytmPriceAt(st, st.y), ytmPriceAt(st, Plus(st.y, epsilon)),
           ytmPriceAt(st, Minus(st.y, epsilon)))

\* the return after the loop, its test having failed
ytmExit(st) == [st EXCEPT !.pc = "returned", !.how = "cap", !.result = toFixed8(st.y)]

RECURSIVE ytmLoop(_)
ytmLoop(st) ==
  IF st.pc # "loop" THEN st
  ELSE IF st.iteration < maxIterations THEN ytmLoop(ytmIterate(st))
  ELSE ytmExit(st)

ytmFromPrice(settlementISO, flows, targetPrice, dc, comp) ==
  ytmLoop(ytmEnter(settlementISO, flows, targetPrice, dc, comp))

\* riskStats: cashflows.map(flow => ({t, pv})), for a supported convention
discounted(settlement, cashflows, y, dc, comp) ==
  Elements([i \in 1..Len(cashflows) |->
              [t  |-> yearFrac(dc, settlement, cashflows[i].date).val,
               pv |-> Times(cashflows[i].amount,
                            discountFactor(settlement, cashflows[i].date, y, dc,
                                           comp).val)]])

\* items.reduce((acc, item) => acc + term(item), 0) for the three sums of riskStats
RECURSIVE SumPVs(_, _)
SumPVs(items, i) ==
  IF i = 0 THEN Zero ELSE Plus(SumPVs(items, i - 1), items[i].pv)
RECURSIVE SumWeighted(_, _)
SumWeighted(items, i) ==
  IF i = 0 THEN Zero
  ELSE Plus(SumWeighted(items, i - 1), Times(items[i].t, items[i].pv))
RECURSIVE SumConvex(_, _, _)
SumConvex(items, freq, i) ==
  IF i = 0 THEN Zero
  ELSE Plus(SumConvex(items, freq, i - 1),
            Times(Times(items[i].pv, items[i].t),
                  Plus(items[i].t, Over(One, FromInt(freq)))))

ZeroStats == [price |-> Zero, macaulay |-> Zero, modified |-> Zero, dv01 |-> Zero,
              convexity |-> Zero]
BasisPoint == Decimal(1, 1)              \* 0.0001

\* the object riskStats returns
StatsReport(price, macaulay, modified, convexity) ==
  [price |-> toFixed8(price), macaulay |-> toFixed8(macaulay),
   modified |-> toFixed8(modified),
   dv01 |-> toFixed8(Times(Times(modified, price), BasisPoint)),
   convexity |-> toFixed8(convexity)]
\* modified and convexity from macaulay, growth = 1 + y / freq and the convexity sum
StatsFrom(price, macaulay, growth, convexNumer) ==
  StatsReport(price, macaulay, Over(macaulay, growth),
              Over(convexNumer, Times(price, MathPow(growth, FromInt(2)))))
StatsOf(y, freq, price, items) ==
  StatsFrom(price, Over(SumWeighted(items, Len(items)), price),
            Plus(One, Over(y, FromInt(freq))), SumConvex(items, freq, Len(items)))
\* riskStats from its price on
StatsWith(settlement, cashflows, y, dc, comp, price) ==
  IF price.err # "none" THEN price
  ELSE IF price.val = Zero \/ cashflows = <<>> THEN Ok(ZeroStats)
  ELSE Ok(StatsOf(y, compFrequency(comp), price.val,
                  discounted(settlement, cashflows, y, dc, comp)))
\* riskStats after its yield is normalized: y is the yield of its own sums
StatsAt(settlement, cashflows, y, dc, comp) ==
  StatsWith(settlement, cashflows, y, dc, comp,
            priceFromYield(settlement, cashflows, y, dc, comp))

riskStats(settlementISO, flows, yieldInput, dc, comp) ==
  LET settlement == toISO(settlementISO)
  IN  StatsAt(settlement, OnOrAfter(normalizeCashflows(flows), settlement),
              normalizeYield(yieldInput, DefaultYield), dc, comp)

\* accruedInterest without the division by the period
accrueUndivided(couponPerPeriod, period, accruedFraction) ==
  IF period.err # "none" THEN period
  ELSE IF Le(period.val, Zero) THEN Ok(Zero)
  ELSE IF accruedFraction.err # "none" THEN accruedFraction
  ELSE IF Le(accruedFraction.val, Zero) THEN Ok(Zero)
  ELSE Ok(toFixed8(Times(couponPerPeriod, accruedFraction.val)))
\* accruedInterest with the two year fractions the wrong way up
accrueInverted(couponPerPeriod, period, accruedFraction) ==
  IF period.err # "none" THEN period
  ELSE IF Le(period.val, Zero) THEN Ok(Zero)
  ELSE IF accruedFraction.err # "none" THEN accruedFraction
  ELSE IF Le(accruedFraction.val, Zero) THEN Ok(Zero)
  ELSE Ok(toFixed8(Times(couponPerPeriod, Over(period.val, accruedFraction.val))))

\* accruedInterest from its two year fractions on
accrue(couponPerPeriod, period, accruedFraction) ==
  IF period.err # "none" THEN period
  ELSE IF Le(period.val, Zero) THEN Ok(Zero)
  ELSE IF accruedFraction.err # "none" THEN accruedFraction
  ELSE IF Le(accruedFraction.val, Zero) THEN Ok(Zero)
  ELSE Ok(toFixed8(Times(couponPerPeriod, Over(accruedFraction.val, period.val))))
accruedInterest(dc, lastCouponISO, settlementISO, nextCouponISO, couponPerPeriod) ==
  IF lastCouponISO = NullDate \/ nextCouponISO = NullDate \/ ~IsFinite(couponPerPeriod)
    THEN Ok(Zero)
  ELSE accrue(couponPerPeriod, yearFrac(dc, lastCouponISO, nextCouponISO),
              yearFrac(dc, lastCouponISO, settlementISO))

(***************************************************************************)
(* index.js                                                                *)
(***************************************************************************)
sanitizeYield(value) ==
  IF ~IsFinite(value) THEN Zero
  ELSE IF Gt(Abs(value), PercentThreshold) THEN Over(value, FromInt(100))
  ELSE value

\* POST /api/priceDirect from its parsed cashflows on: the yield it reports
\* and the statistics it reports with it (POST /api/priceSchedule treats
\* quote.yield the same way)
respond(y, risk) ==
  IF risk.err # "none" THEN [status |-> 500, ytm |-> NaN, risk |-> ZeroStats]
  ELSE [status |-> 200, ytm |-> toFixed8(y), risk |-> risk.val]
priceRoute(settlementISO, flows, quoteYield, dc, comp) ==
  LET y == sanitizeYield(quoteYield)
  IN  IF flows = <<>> THEN [status |-> 400, ytm |-> NaN, risk |-> ZeroStats]
      ELSE respond(y, riskStats(settlementISO, flows, y, dc, comp))

\* determineSettlement, its lag a whole number of days; today is the value
\* of new Date()
determineSettlement(settlementDate, lag, rollType, today) ==
  LET base == toISO(IF settlementDate = NullDate THEN today ELSE settlementDate)
      lagged == IF lag # 0 THEN addDays(base, lag) ELSE base
  IN  rollBusiness(lagged, IF rollType = "" THEN "FOLLOWING" ELSE rollType)

\* [...dates].sort((a, b) => compareISO(a, b)): ascending and stable
InsertDate(sorted, date) ==
  LET at(k) == SubSeq(sorted, 1, k) \o <<date>> \o SubSeq(sorted, k + 1, Len(sorted))
  IN  at(Cardinality({i \in 1..Len(sorted) : Le(compareISO(sorted[i], date), Zero)}))
RECURSIVE SortDates(_)
SortDates(dates) ==
  IF dates = <<>> THEN <<>>
  ELSE InsertDate(SortDates(SubSeq(dates, 1, Len(dates) - 1)), dates[Len(dates)])

\* adjacentCoupons' loop from the k-th sorted date on, with last as found so far
RECURSIVE scanCoupons(_, _, _, _)
scanCoupons(sorted, settlementISO, k, last) ==
  IF k > Len(sorted) THEN [last |-> last, next |-> NullDate]
  ELSE IF Le(compareISO(sorted[k], settlementISO), Zero)
    THEN scanCoupons(sorted, settlementISO, k + 1, sorted[k])
  ELSE [last |-> last, next |-> sorted[k]]

\* adjacentCoupons scanning the dates in the order given
adjacentUnsorted(dates, settlementISO) ==
  IF dates = <<>> THEN [last |-> NullDate, next |-> NullDate]
  ELSE scanCoupons(dates, settlementISO, 1, NullDate)
adjacentCoupons(dates, settlementISO) ==
  IF dates = <<>> THEN [last |-> NullDate, next |-> NullDate]
  ELSE scanCoupons(SortDates(dates), settlementISO, 1, NullDate)

(***************************************************************************)
(* schedule.js.  The schedule a call of buildSchedule returns, or the      *)
(* error it throws.                                                        *)
(***************************************************************************)
sanitizeNumber(value, fallback) == IF IsFinite(value) THEN value ELSE fallback

\* Number(x.toFixed(12))
toFixed12(x) ==
  IF ~x.fin THEN NaN
  ELSE IF x.exp >= -3 THEN x
  ELSE IF -3 - x.exp > Len(x.mag) THEN Zero
  ELSE MkNum(x.neg, NRoundShiftR(x.mag, -3 - x.exp), -3)

\* Math.floor(n) held at 0 and not at 1
frequencyFromZero(n) == IF n.neg \/ n.mag = <<>> THEN 0 ELSE WholePart(n)
\* Math.max(1, Math.floor(n)) of a finite n
frequencyOf(n) ==
  IF n.neg \/ n.mag = <<>> THEN 1 ELSE IF WholePart(n) < 1 THEN 1 ELSE WholePart(n)

SafetyCap == 600

\* One pass of the loop over coupon dates.  The loop is at
\* [cursorISO, couponDates, safety, done], done once it is left, by its
\* break or by its condition.
datesGoOn(st, maturityISO) ==
  Lt(compareISO(st.cursorISO, maturityISO), Zero) /\ st.safety < SafetyCap
\* the loop body pushing the maturity date itself when it breaks
datesPushMaturity(st, maturityISO, nextMonthEnd) ==
  IF Ge(compareISO(nextMonthEnd, maturityISO), Zero)
    THEN [cursorISO |-> st.cursorISO, safety |-> st.safety + 1, done |-> TRUE,
          couponDates |-> Append(st.couponDates, maturityISO)]
    ELSE [cursorISO |-> nextMonthEnd, safety |-> st.safety + 1, done |-> FALSE,
          couponDates |-> Append(st.couponDates, nextMonthEnd)]
datesPush(st, maturityISO, nextMonthEnd) ==
  IF Ge(compareISO(nextMonthEnd, maturityISO), Zero)
    THEN [cursorISO |-> st.cursorISO, safety |-> st.safety + 1, done |-> TRUE,
          couponDates |-> Append(st.couponDates, endOfMonth(maturityISO))]
    ELSE [cursorISO |-> nextMonthEnd, safety |-> st.safety + 1, done |-> FALSE,
          couponDates |-> Append(st.couponDates, nextMonthEnd)]
\* (const nextMonthEnd is computed before the statements after it run)
datesPass(st, maturityISO, frequencyMonths, anchorDay) ==
  IF ~datesGoOn(st, maturityISO) THEN [st EXCEPT !.done = TRUE]
  ELSE CHOOSE next \in
         {datesPush(st, maturityISO, nextMonthEnd) :
            nextMonthEnd \in {endOfMonth(addMonths(st.cursorISO, frequencyMonths, anchorDay))}} :
         TRUE
\* the loop, for at most n more passes
RECURSIVE datesLoop(_, _, _, _, _)
datesLoop(st, maturityISO, frequencyMonths, anchorDay, n) ==
  IF st.done \/ n = 0 THEN st
  ELSE IF n = 1 THEN datesPass(st, maturityISO, frequencyMonths, anchorDay)
  ELSE datesLoop(datesLoop(st, maturityISO, frequencyMonths, anchorDay, n \div 2),
                 maturityISO, frequencyMonths, anchorDay, n - n \div 2)

\* the coupon dates as the loop leaves them, an empty list included
couponDatesOfLoop(issueISO, maturityISO, frequencyMonths) ==
  datesLoop([cursorISO |-> issueISO, safety |-> 0, done |-> FALSE, couponDates |-> <<>>],
            maturityISO, frequencyMonths, getUTCDate(fromISO(issueISO)),
            SafetyCap).couponDates
\* the coupon dates of the schedule, the dates pushed after an empty loop
\* included
couponDatesOf(issueISO, maturityISO, frequencyMonths) ==
  LET st == datesLoop([cursorISO |-> issueISO, safety |-> 0, done |-> FALSE,
                       couponDates |-> <<>>],
                      maturityISO, frequencyMonths, getUTCDate(fromISO(issueISO)), SafetyCap)
  IN  IF st.couponDates = <<>> THEN <<endOfMonth(maturityISO)>> ELSE st.couponDates

\* the period that ends on a coupon date
periodOf(faceValue, rate, periodStartISO, periodEndISO, accrualFactorRaw, periodRedemption) ==
  LET accrualFactor == IF Gt(accrualFactorRaw, Zero) THEN accrualFactorRaw ELSE Zero
      couponAmount == toFixed8(Times(Times(faceValue, rate), accrualFactor))
  IN  [start |-> periodStartISO, end |-> periodEndISO,
       accrualFactor |-> toFixed12(accrualFactor), couponAmount |-> couponAmount,
       redemptionAmount |-> periodRedemption,
       totalAmount |-> toFixed8(Plus(couponAmount, periodRedemption))]

\* the year fraction of every period: a period starts where the one before
\* it ends, the first on the issue date
fractionsOf(dayCountConvention, issueISO, couponDates) ==
  Elements([i \in 1..Len(couponDates) |->
    yearFrac(dayCountConvention, IF i = 1 THEN issueISO ELSE couponDates[i - 1],
             couponDates[i])])
\* the periods with the redemption paid on every one of them
periodsOfLevel(faceValue, rate, issueISO, couponDates, redemptionAmount, fractions) ==
  Elements([i \in 1..Len(couponDates) |->
    periodOf(faceValue, rate, IF i = 1 THEN issueISO ELSE couponDates[i - 1],
             couponDates[i], fractions[i].val, redemptionAmount)])
periodsOf(faceValue, rate, issueISO, couponDates, redemptionAmount, fractions) ==
  Elements([i \in 1..Len(couponDates) |->
    periodOf(faceValue, rate, IF i = 1 THEN issueISO ELSE couponDates[i - 1],
             couponDates[i], fractions[i].val,
             IF i = Len(couponDates) THEN redemptionAmount ELSE Zero)])

scheduleOf(periods, couponDates, redemptionAmount) ==
  [cashflows |-> Elements([i \in 1..Len(periods) |->
                   [date |-> periods[i].end, amount |-> periods[i].totalAmount]]),
   couponAmount |-> IF periods = <<>> THEN Zero ELSE periods[1].couponAmount,
   redemptionAmount |-> redemptionAmount,
   couponDates |-> couponDates,
   periods |-> periods]

\* buildSchedule from its coupon dates on
scheduleFrom(faceValue, rate, issueISO, couponDates, redemptionAmount, fractions) ==
  IF \E i \in 1..Len(fractions) : fractions[i].err # "none"
    THEN Throw("UnsupportedConvention")
  ELSE Ok(scheduleOf(periodsOf(faceValue, rate, issueISO, couponDates, redemptionAmount,
                               fractions),
                     couponDates, redemptionAmount))
scheduleOn(faceValue, rate, dayCountConvention, issueISO, couponDates, redemptionAmount) ==
  scheduleFrom(faceValue, rate, issueISO, couponDates, redemptionAmount,
               fractionsOf(dayCountConvention, issueISO, couponDates))
\* buildSchedule from its sanitized terms on
scheduleWith(faceValue, rate, frequencyMonths, redemptionPercent, dayCountConvention, issueISO, maturityISO) ==
  scheduleOn(faceValue, rate, dayCountConvention, issueISO,
             couponDatesOf(issueISO, maturityISO, frequencyMonths),
             toFixed8(Times(faceValue, Over(redemptionPercent, FromInt(100)))))
\* buildSchedule of terms whose dates are ISO strings or missing and whose
\* dayCount is a string
buildSchedule(terms) ==
  IF terms.issueDate = NullDate \/ terms.maturityDate = NullDate
    THEN Throw("InvalidDate")
  ELSE scheduleWith(sanitizeNumber(terms.face, FromInt(100)),
                    sanitizeNumber(terms.couponRate, Zero),
                    frequencyOf(sanitizeNumber(terms.freqMonths, FromInt(6))),
                    sanitizeNumber(terms.redemptionPct, FromInt(100)),
                    ToUpperCase(IF terms.dayCount = "" THEN "ACT365F" ELSE terms.dayCount),
                    toISO(terms.issueDate), toISO(terms.maturityDate))

(***************************************************************************)
(* The state: the engine call in progress or just answered (the engine     *)
(* keeps nothing between calls), and ytmFromPrice's position in its loop.  *)
(***************************************************************************)
VARIABLES call, ytm
vars == <<call, ytm>>

Idle == [op |-> "idle"]
YtmIdle == [pc |-> "idle"]

(***************************************************************************)
(* The inputs.  A cashflow list is given by its shape, a sequence of       *)
(* <<years from settlement, amount>>: payment dates are whole years from   *)
(* settlement under the day count in use, so that every discounting        *)
(* exponent t * freq is a whole number (MathPow covers no other).          *)
(***************************************************************************)
MaxYears == 12
Settlements == {ISO(2024, 3, 15)}
Conventions == {<<"ACT365F", "ANNUAL">>, <<"ACT360", "SEMI">>, <<"30360US", "STREET">>,
                <<"ACT/ACT", "SEMIANNUAL">>}
DayCounts == {"ACT365F", "ACT360", "30360US", "30/360-US", "", "act360", "ACT/ACT"}
Modes == {"ANNUAL", "SEMI", "SEMIANNUAL", "STREET", "", "semi", "annual", "CONTINUOUS"}

YearsFrom(settlement, dc, k) ==
  LET days(n) == toISOString(coerceDate(settlement) + n)
      convention == ToUpperCase(dc)
  IN  IF convention = "30360US" THEN ISO(settlement.y + k, settlement.m, settlement.d)
      ELSE days(IF convention = "ACT360" THEN 360 * k ELSE 365 * k)

Flows(shape, settlement, dc) ==
  Elements([i \in 1..Len(shape) |->
              [date |-> YearsFrom(settlement, dc, shape[i][1]), amount |-> shape[i][2]]])

Shapes ==
  { <<>>,
    << <<-1, FromInt(5)>> >>,
    << <<-2, FromInt(5)>>, <<-1, FromInt(105)>> >>,
    << <<0, FromInt(100)>> >>,
    << <<1, FromInt(100)>> >>,
    << <<2, FromInt(105)>>, <<1, FromInt(5)>> >>,
    << <<1, FromInt(5)>>, <<-1, FromInt(5)>>, <<0, FromInt(7)>>, <<2, FromInt(105)>> >>,
    << <<1, NaN>>, <<3, FromInt(4)>> >>,
    << <<1, FromInt(-5)>>, <<2, FromInt(-105)>> >>,
    << <<MaxYears, FromInt(1)>> >> }

Yields == {Ratio(-16, 10), Ratio(-15, 10), Ratio(-2, 10), Zero, Ratio(5, 100),
           Ratio(5, 10), Ratio(15, 10), Ratio(16, 10), Ratio(75, 10), FromInt(150),
           FromInt(151), FromInt(200), NaN}

(***************************************************************************)
(* The engine's operations, each a call answered from the idle state.      *)
(***************************************************************************)
PriceFromYield ==
  /\ call = Idle
  /\ \E settlement \in Settlements, shape \in Shapes, y \in Yields, cv \in Conventions :
       call' = [op |-> "priceFromYield", settlement |-> settlement, shape |-> shape,
                yieldInput |-> y, dc |-> cv[1], comp |-> cv[2],
                res |-> priceFromYield(settlement, Flows(shape, settlement, cv[1]), y,
                                       cv[1], cv[2])]
  /\ UNCHANGED ytm

RiskStats ==
  /\ call = Idle
  /\ \E settlement \in Settlements, shape \in Shapes, y \in Yields, cv \in Conventions :
       LET flows == Flows(shape, settlement, cv[1])
       IN  call' = [op |-> "riskStats", settlement |-> settlement, shape |-> shape,
                    yieldInput |-> y, dc |-> cv[1], comp |-> cv[2],
                    res |-> riskStats(settlement, flows, y, cv[1], cv[2])]
  /\ UNCHANGED ytm

PriceRoute ==
  /\ call = Idle
  /\ \E settlement \in Settlements, shape \in Shapes, y \in Yields, cv \in Conventions :
       call' = [op |-> "priceRoute", settlement |-> settlement, shape |-> shape,
                yieldInput |-> y, dc |-> cv[1], comp |-> cv[2],
                res |-> priceRoute(settlement, Flows(shape, settlement, cv[1]), y,
                                   cv[1], cv[2])]
  /\ UNCHANGED ytm

Targets == {NaN, FromInt(100)}
QuickShapes == {shape \in Shapes : \A i \in 1..Len(shape) :
                  shape[i][1] <= 2 /\ Ge(shape[i][2], Zero)}

YtmFromPrice ==
  /\ call = Idle
  /\ \E settlement \in Settlements, shape \in QuickShapes, target \in Targets,
        cv \in Conventions :
       call' = [op |-> "ytmFromPrice", settlement |-> settlement, shape |-> shape,
                targetPrice |-> target, dc |-> cv[1], comp |-> cv[2],
                res |-> ytmFromPrice(settlement, Flows(shape, settlement, cv[1]), target,
                                     cv[1], cv[2])]
  /\ UNCHANGED ytm

CouponDates == {NullDate, ISO(2023, 7, 31), ISO(2024, 1, 30), ISO(2024, 1, 31),
                ISO(2024, 7, 31)}
AccrualSettlements == {ISO(2024, 1, 15), ISO(2024, 1, 31), ISO(2024, 3, 15),
                       ISO(2024, 7, 31), ISO(2024, 9, 2)}
Coupons == {NaN, Zero, FromInt(4), FromInt(-3), Ratio(375, 100), Decimal(123456789, 3)}

AccruedInterest ==
  /\ call = Idle
  /\ \E dc \in DayCounts, last \in CouponDates, settlement \in AccrualSettlements,
        next \in CouponDates, coupon \in Coupons :
       call' = [op |-> "accruedInterest", dc |-> dc, lastCouponISO |-> last,
                settlement |-> settlement, nextCouponISO |-> next,
                couponPerPeriod |-> coupon,
                res |-> accruedInterest(dc, last, settlement, next, coupon)]
  /\ UNCHANGED ytm

CompFrequency ==
  /\ call = Idle
  /\ \E comp \in Modes :
       call' = [op |-> "compFrequency", comp |-> comp, res |-> compFrequency(comp)]
  /\ UNCHANGED ytm

Return ==
  /\ call # Idle
  /\ ytm = YtmIdle
  /\ call' = Idle
  /\ UNCHANGED ytm

Init == call = Idle /\ ytm = YtmIdle
Next ==
  \/ PriceFromYield
  \/ RiskStats
  \/ PriceRoute
  \/ YtmFromPrice
  \/ AccruedInterest
  \/ CompFrequency
  \/ Return
Spec == Init /\ [][Next]_vars

\* ---------------------------------------------------------------------------
\* The solver taken one loop pass at a time.  A quoted price comes from a
\* priceFromYield call and is handed back to ytmFromPrice with the same
\* cashflows and conventions; a target price is handed to it directly.
RoundTripShapes == { <<<<1, FromInt(100)>>>>,
                     <<<<2, FromInt(105)>>, <<1, FromInt(5)>>>>,
                     <<<<MaxYears, One>>>> }
RoundTripYields == {Ratio(-2, 10), Zero, Ratio(5, 100), Ratio(5, 10)}
SolverConventions == {<<"ACT365F", "ANNUAL">>, <<"ACT360", "SEMI">>}
DirectShapes == { <<>>, <<<<-1, FromInt(5)>>>>, <<<<0, FromInt(100)>>>>,
                  <<<<1, FromInt(100)>>>> }
DirectTargets == {NaN, FromInt(30), FromInt(100), FromInt(104)}
DirectConventions == {<<"ACT365F", "ANNUAL">>, <<"ACT/ACT", "SEMIANNUAL">>}

QuotePrice ==
  /\ call = Idle
  /\ ytm = YtmIdle
  /\ \E settlement \in Settlements, shape \in RoundTripShapes, y \in RoundTripYields,
        cv \in SolverConventions :
       call' = [op |-> "priceFromYield", settlement |-> settlement, shape |-> shape,
                yieldInput |-> y, dc |-> cv[1], comp |-> cv[2],
                res |-> priceFromYield(settlement, Flows(shape, settlement, cv[1]), y,
                                       cv[1], cv[2])]
  /\ UNCHANGED ytm

SolveForQuote ==
  /\ call.op = "priceFromYield"
  /\ call.res.err = "none"
  /\ ytm = YtmIdle
  /\ ytm' = ytmEnter(call.settlement, Flows(call.shape, call.settlement, call.dc),
                     call.res.val, call.dc, call.comp)
  /\ UNCHANGED call

SolveForTarget ==
  /\ call = Idle
  /\ ytm = YtmIdle
  /\ \E settlement \in Settlements, shape \in DirectShapes, target \in DirectTargets,
        cv \in DirectConventions :
       ytm' = ytmEnter(settlement, Flows(shape, settlement, cv[1]), target, cv[1], cv[2])
  /\ UNCHANGED call

SolverIterate ==
  /\ ytm.pc = "loop"
  /\ ytm.iteration < maxIterations
  /\ ytm' = ytmIterate(ytm)
  /\ UNCHANGED call

SolverExit ==
  /\ ytm.pc = "loop"
  /\ ytm.iteration >= maxIterations
  /\ ytm' = ytmExit(ytm)
  /\ UNCHANGED call

SolverReturn ==
  /\ ytm.pc \in {"returned", "threw"}
  /\ ytm' = YtmIdle
  /\ call' = Idle

SolverNext ==
  \/ QuotePrice
  \/ SolveForQuote
  \/ SolveForTarget
  \/ SolverIterate
  \/ SolverExit
  \/ SolverReturn
SolverSpec == Init /\ [][SolverNext]_vars
\* The solver is synchronous code and does not stop part of the way through
\* a call: WF_vars(SolverNext).  SolverNext is enabled in every state and
\* changes it, so that weak fairness is infinitely many steps that change the
\* state.
SolverFair == SolverSpec /\ []<><<TRUE>>_vars

\* ---------------------------------------------------------------------------
\* The calendar, the coupon lookup and the schedule builder, each a call
\* answered from the idle state.
CalendarDates == {ISO(2023, 1, 31), ISO(2023, 12, 31), ISO(2024, 1, 30), ISO(2024, 1, 31),
                  ISO(2024, 2, 28), ISO(2024, 2, 29), ISO(2024, 3, 1), ISO(2024, 3, 15),
                  ISO(2024, 3, 31), ISO(2025, 3, 15)}
\* what toISO may be given besides a calendar date: nothing, no date, a
\* YYYY-MM-DD string of a day or month that does not exist, a date-time
\* string with an offset
DateInputs ==
  {NullDate, NoDate, ISO(2023, 2, 29), ISO(2023, 2, 30), ISO(2024, 4, 31), ISO(2023, 13, 1),
   ISO(2023, 0, 10), ISO(2024, 1, 0), DateTime(2024, 3, 15, 12 * 60, 0),
   DateTime(2024, 3, 15, 23 * 60 + 30, -300), DateTime(2024, 3, 15, 30, 330),
   DateTime(2024, 12, 31, 23 * 60 + 59, -60), DateTime(2024, 3, 15, 0, 0)}
\* whole weeks around the ends of December, March and May
RollDates == {toISOString(d) : d \in (DateUTC(2023, 11, 25)..DateUTC(2024, 0, 7))
                                       \cup (DateUTC(2024, 2, 25)..DateUTC(2024, 3, 7))
                                       \cup (DateUTC(2024, 4, 27)..DateUTC(2024, 5, 9))}
Rolls == {"FOLLOWING", "PRECEDING", "MODFOLLOW", "MODIFIEDFOLLOWING", "MODIFIED-FOLLOWING",
          "", "modfollow", "NEAREST"}
SettlementInputs == {NullDate, ISO(2023, 12, 29), ISO(2023, 12, 30), ISO(2024, 3, 28),
                     ISO(2024, 3, 30), ISO(2024, 3, 31), ISO(2024, 6, 1)}
Todays == {ISO(2024, 3, 29), ISO(2024, 3, 30)}
Lags == {-2, -1, 0, 1, 2, 3}
MaxCouponDates == 3
LookupDates == {ISO(2024, 1, 31), ISO(2024, 7, 31), ISO(2025, 1, 31), ISO(2025, 7, 31)}
LookupSettlements == {ISO(2023, 12, 29), ISO(2024, 1, 31), ISO(2024, 3, 15),
                      ISO(2025, 1, 31), ISO(2025, 7, 31), ISO(2025, 8, 1)}
DateLists == UNION {[1..n -> LookupDates] : n \in 0..MaxCouponDates}

Faces == {NaN, FromInt(100), FromInt(1000)}
CouponRates == {NaN, Ratio(8, 100), Decimal(775, 1)}
Frequencies == {NaN, FromInt(-3), Zero, One, FromInt(6), Ratio(65, 10), FromInt(12)}
RedemptionPcts == {NaN, Zero, FromInt(100), Decimal(333333333, 2),
                   Ratio(1, 3)}
ScheduleDayCounts == {"ACT365F", "30360US", "", "ACT/ACT"}
\* <<issueDate, maturityDate>>
Lifetimes == {<<ISO(2024, 1, 31), ISO(2026, 1, 31)>>, <<ISO(2024, 3, 15), ISO(2025, 9, 10)>>,
              <<ISO(2024, 3, 15), ISO(2024, 3, 15)>>, <<ISO(2024, 3, 31), ISO(2024, 3, 31)>>,
              <<ISO(2024, 5, 31), ISO(2024, 3, 15)>>, <<NullDate, ISO(2024, 3, 15)>>}
\* half a century: 600 months from 1970-01-31 end on 2020-01-31
LongLifetimes == {<<ISO(1970, 1, 31), ISO(2020, 1, 31)>>, <<ISO(1970, 1, 31), ISO(2020, 2, 10)>>,
                  <<ISO(1970, 1, 31), ISO(2021, 6, 30)>>}
Terms(face, couponRate, freqMonths, life, redemptionPct, dayCount) ==
  [face |-> face, couponRate |-> couponRate, freqMonths |-> freqMonths,
   issueDate |-> life[1], maturityDate |-> life[2], redemptionPct |-> redemptionPct,
   dayCount |-> dayCount]
\* the dates of a schedule come from freqMonths and the two dates, its
\* amounts from face, couponRate, redemptionPct and dayCount as well
TermsSet ==
  {Terms(FromInt(100), Ratio(8, 100), freq, life, FromInt(100), dc) :
     freq \in Frequencies, life \in Lifetimes, dc \in ScheduleDayCounts}
    \cup {Terms(face, rate, FromInt(6), life, pct, dc) :
            face \in Faces, rate \in CouponRates, pct \in RedemptionPcts,
            life \in {<<ISO(2024, 3, 15), ISO(2025, 9, 10)>>,
                      <<ISO(2024, 3, 31), ISO(2024, 3, 31)>>},
            dc \in {"30360US", "ACT365F"}}
    \cup {Terms(FromInt(100), Ratio(8, 100), freq, life, FromInt(100), "ACT365F") :
            freq \in {One, FromInt(12)}, life \in LongLifetimes}

YearFrac ==
  /\ call = Idle
  /\ \E dc \in DayCounts, start \in CalendarDates, end \in CalendarDates :
       call' = [op |-> "yearFrac", dc |-> dc, start |-> start, end |-> end,
                res |-> yearFrac(dc, start, end)]
  /\ UNCHANGED ytm

RollBusiness ==
  /\ call = Idle
  /\ \E value \in RollDates, roll \in Rolls :
       call' = [op |-> "rollBusiness", value |-> value, roll |-> roll,
                res |-> rollBusiness(value, roll)]
  /\ UNCHANGED ytm

DetermineSettlement ==
  /\ call = Idle
  /\ \E settlementDate \in SettlementInputs, lag \in Lags, roll \in Rolls, today \in Todays :
       call' = [op |-> "determineSettlement", settlementDate |-> settlementDate,
                lag |-> lag, roll |-> roll, today |-> today,
                res |-> determineSettlement(settlementDate, lag, roll, today)]
  /\ UNCHANGED ytm

ToISO ==
  /\ call = Idle
  /\ \E value \in CalendarDates \cup DateInputs :
       call' = [op |-> "toISO", value |-> value, res |-> toISOResult(value)]
  /\ UNCHANGED ytm

CompareISO ==
  /\ call = Idle
  /\ \E a \in CalendarDates, b \in CalendarDates :
       call' = [op |-> "compareISO", a |-> a, b |-> b, res |-> compareISO(a, b)]
  /\ UNCHANGED ytm

\* given: whether the call passes an anchorDay
AddMonths ==
  /\ call = Idle
  /\ \E value \in CalendarDates, months \in {-13, -1, 0, 1, 6, 11, 12, 13},
        given \in BOOLEAN, anchorDay \in {1, 15, 28, 29, 30, 31} :
       /\ given \/ anchorDay = 1
       /\ call' = [op |-> "addMonths", value |-> value, months |-> months, given |-> given,
                   anchorDay |-> anchorDay,
                   res |-> IF given THEN addMonths(value, months, anchorDay)
                           ELSE addMonthsFrom(value, months)]
  /\ UNCHANGED ytm

\* the caller's list written in place by the sort
datesSortedInPlace(dates) == SortDates(dates)
\* The caller's list of dates once adjacentCoupons has returned: the sort is
\* on the copy [...dates], the list itself is only read.
datesAfter(dates) == dates
\* The caller's list of flows once normalizeCashflows has returned: map and
\* filter each build a new list and the sort is on the one filter built.
flowsAfter(flows) == flows

AdjacentCoupons ==
  /\ call = Idle
  /\ \E dates \in DateLists, settlement \in LookupSettlements :
       call' = [op |-> "adjacentCoupons", dates |-> dates, settlement |-> settlement,
                res |-> adjacentCoupons(dates, settlement),
                datesAfter |-> datesAfter(dates)]
  /\ UNCHANGED ytm

NormalizeCashflows ==
  /\ call = Idle
  /\ \E settlement \in Settlements, shape \in Shapes, dc \in {"ACT365F", "30360US"} :
       call' = [op |-> "normalizeCashflows", flows |-> Flows(shape, settlement, dc),
                res |-> normalizeCashflows(Flows(shape, settlement, dc)),
                flowsAfter |-> flowsAfter(Flows(shape, settlement, dc))]
  /\ UNCHANGED ytm

BuildSchedule ==
  /\ call = Idle
  /\ \E terms \in TermsSet :
       call' = [op |-> "buildSchedule", terms |-> terms, res |-> buildSchedule(terms)]
  /\ UNCHANGED ytm

CalendarNext ==
  \/ YearFrac
  \/ RollBusiness
  \/ DetermineSettlement
  \/ NormalizeCashflows
  \/ ToISO
  \/ CompareISO
  \/ AddMonths
  \/ AdjacentCoupons
  \/ BuildSchedule
  \/ Return
CalendarSpec == Init /\ [][CalendarNext]_vars

(***************************************************************************)
(* The properties.  In a state a call has just answered, call holds the    *)
(* call's arguments and its answer.                                        *)
(***************************************************************************)

\* C1, as stated: a yield between -0.2 and 0.5 comes back within 1e-6 when
\* ytmFromPrice is given the price priceFromYield quoted at it, on the same
\* settlement, cashflows, day count and compounding.
RoundTripWithinMicro ==
  (call.op = "priceFromYield" /\ ytm.pc = "returned")
    => Le(Abs(Minus(ytm.result, call.yieldInput)), Decimal(100, 2))

OnlyFlowsFromSettlementOn ==
  (call.op = "priceFromYield" /\ call.res.err = "none") =>
    LET after(f) == f[1] > 0
        onDate(f) == f[1] = 0 /\ IsFinite(f[2])
        whole == [i \in 1..Len(SelectSeq(call.shape, onDate)) |->
                    [pv |-> SelectSeq(call.shape, onDate)[i][2]]]
        later == normalizeCashflows(Flows(SelectSeq(call.shape, after), call.settlement,
                                          call.dc))
    IN  call.res.val =
          toFixed8(SumPV(call.settlement, later,
                         normalizeYield(call.yieldInput, DefaultYield), call.dc,
                         call.comp, 1, SumPVs(whole, Len(whole))).val)
\* C3's case: a list with a cashflow before, one on and two after settlement
PricedAcrossSettlement ==
  /\ call.op = "priceFromYield"
  /\ call.shape = << <<1, FromInt(5)>>, <<-1, FromInt(5)>>, <<0, FromInt(7)>>,
                     <<2, FromInt(105)>> >>
  /\ call.yieldInput = Zero
  /\ call.res = Ok(FromInt(117))

\* C4, as stated: priceFromYield, riskStats and the price routes value the
\* cashflows at y / 100 when the yield y they are given has a magnitude above
\* 1.5 and at y itself otherwise, the normalization being applied once.
YieldNormalizedOnce ==
  (call.op \in {"priceFromYield", "riskStats", "priceRoute"}
     /\ IsFinite(call.yieldInput)) =>
    LET once == IF Gt(Abs(call.yieldInput), Decimal(15000, 1))
                  THEN Over(call.yieldInput, FromInt(100)) ELSE call.yieldInput
        valued == PriceAt(call.settlement, Flows(call.shape, call.settlement, call.dc),
                          once, call.dc, call.comp)
    IN  CASE call.op = "priceFromYield" -> call.res = valued
          [] call.op = "riskStats" ->
               call.res.err = valued.err
                 /\ (valued.err = "none" => call.res.val.price = valued.val)
          [] call.op = "priceRoute" ->
               call.res.status = 200 => call.res.risk.price = valued.val

\* C5, as stated: the price riskStats returns is, to 8 decimals, the sum of
\* the present values pv it weighs for Macaulay duration and convexity.
PriceIsSumOfPresentValues ==
  (call.op = "riskStats" /\ call.res.err = "none") =>
    LET settlement == toISO(call.settlement)
        items == discounted(settlement,
                            OnOrAfter(normalizeCashflows(Flows(call.shape, call.settlement,
                                                               call.dc)), settlement),
                            normalizeYield(call.yieldInput, DefaultYield), call.dc,
                            call.comp)
    IN  call.res.val # ZeroStats => call.res.val.price = toFixed8(SumPVs(items, Len(items)))

\* C6: with every cashflow dated before settlement, priceFromYield returns 0,
\* riskStats returns price, macaulay, modified, dv01 and convexity all 0, and
\* ytmFromPrice returns 0; none of the three raises an error.
NothingLeftToPay ==
  (/\ call.op \in {"priceFromYield", "riskStats", "ytmFromPrice"}
   /\ \A i \in 1..Len(call.shape) : call.shape[i][1] < 0) =>
    CASE call.op = "priceFromYield" -> call.res = Ok(Zero)
      [] call.op = "riskStats" -> call.res = Ok(ZeroStats)
      [] call.op = "ytmFromPrice" ->
           call.res.pc = "returned" /\ call.res.err = "none" /\ call.res.result = Zero
\* C6's case: the yield asked of a bond whose payments are all past
SolvedWithNothingLeft ==
  /\ call.op = "ytmFromPrice"
  /\ call.shape = << <<-2, FromInt(5)>>, <<-1, FromInt(105)>> >>
  /\ IsFinite(call.targetPrice)
  /\ call.res.pc = "returned"
  /\ call.res.result = Zero

\* C7, as stated: for a finite target price ytmFromPrice returns, either once
\* |priceFromYield(y) - targetPrice| < 1e-8 is observed or after exactly 100
\* passes of the loop, and never raises an error.
SolverNeverRaises ==
  (ytm.pc # "idle" /\ IsFinite(ytm.priceTarget)) =>
    /\ ytm.pc # "threw"
    /\ ytm.pc = "returned" =>
         ytm.how = "converged" \/ (ytm.how = "cap" /\ ytm.iteration = maxIterations)

\* C7, amended: for a finite target price, a cashflow on or after settlement
\* and a supported day count, every pass of the loop that observes
\* |priceFromYield(y) - targetPrice| < 1e-8 returns y, every other pass goes on
\* to the next, after exactly 100 passes the last y is returned, no pass
\* raises an error, and the loop always comes to its return.
SolverTerminates ==
  /\ [][(ytm.pc = "loop" /\ ytm.dc \in {"ACT365F", "ACT360"}) =>
          LET observed == Lt(Abs(Minus(ytmPriceAt(ytm, ytm.y).val, ytm.priceTarget)),
                             Decimal(1, 2))
              passes == ytm.iteration < maxIterations
          IN  /\ ytm.iteration <= maxIterations
              /\ ytm'.pc # "threw"
              /\ (passes /\ observed) =>
                   /\ ytm'.pc = "returned"
                   /\ ytm'.how = "converged"
                   /\ ytm'.result = toFixed8(ytm.y)
              /\ (passes /\ ~observed) =>
                   ytm'.pc = "loop" /\ ytm'.iteration = ytm.iteration + 1
              /\ ~passes =>
                   /\ ytm'.pc = "returned"
                   /\ ytm'.how = "cap"
                   /\ ytm'.iteration = maxIterations
                   /\ ytm'.result = toFixed8(ytm.y)]_vars
  /\ (ytm.pc = "loop" /\ ytm.dc \in {"ACT365F", "ACT360"}) ~> (ytm.pc = "returned")
\* C7's case: the loop left at its cap
ReturnedAtCap ==
  /\ ytm.pc = "returned"
  /\ ytm.how = "cap"
  /\ ytm.iteration = maxIterations
  /\ ytm.dc = "ACT365F"
  /\ IsFinite(ytm.priceTarget)

\* C8, as stated: ytmFromPrice fails with InvalidTargetPrice whenever
\* targetPrice is not a finite number, for every settlement and cashflow list.
InvalidTargetAlwaysFails ==
  (call.op = "ytmFromPrice" /\ ~IsFinite(call.targetPrice)) =>
    call.res.pc = "threw" /\ call.res.err = "InvalidTargetPrice"

\* C8, amended: with a target price that is not a finite number ytmFromPrice
\* fails with InvalidTargetPrice when a cashflow of finite amount is dated on
\* or after settlement, and returns 0 when none is.
InvalidTargetFailsWithFlows ==
  (call.op = "ytmFromPrice" /\ ~IsFinite(call.targetPrice)) =>
    IF \E i \in 1..Len(call.shape) : call.shape[i][1] >= 0 /\ IsFinite(call.shape[i][2])
      THEN call.res.pc = "threw" /\ call.res.err = "InvalidTargetPrice"
      ELSE call.res.pc = "returned" /\ call.res.err = "none" /\ call.res.result = Zero
\* C8's case: a target that is no number, asked of a bond with payments to come
InvalidTargetRefused ==
  /\ call.op = "ytmFromPrice"
  /\ ~IsFinite(call.targetPrice)
  /\ call.shape = << <<2, FromInt(105)>>, <<1, FromInt(5)>> >>
  /\ call.res.err = "InvalidTargetPrice"

\* C9: annual compounding has frequency 1, semi-annual compounding frequency
\* 2 and STREET frequency 1, and this is the frequency of the discount factors
\* (a payment of 100 a year on is worth 100 / (1 + y / freq)^freq) and of
\* modified duration and convexity.
FrequencyOfMode ==
  LET freq == IF call.comp \in {"SEMI", "SEMIANNUAL"} THEN 2 ELSE 1
      y == normalizeYield(call.yieldInput, DefaultYield)
      flows == Flows(call.shape, call.settlement, call.dc)
  IN  /\ (call.op = "compFrequency" /\ call.comp \in {"ANNUAL", "STREET"}) => call.res = 1
      /\ (call.op = "compFrequency" /\ call.comp \in {"SEMI", "SEMIANNUAL"}) => call.res = 2
      /\ (/\ call.op = "priceFromYield"
          /\ call.res.err = "none"
          /\ call.shape = << <<1, FromInt(100)>> >>) =>
           call.res.val =
             toFixed8(Times(FromInt(100),
                            Over(One, PowInt(Plus(One, Over(y, FromInt(freq))), freq))))
      /\ (call.op = "riskStats" /\ call.res.err = "none" /\ call.res.val # ZeroStats) =>
           call.res.val =
             StatsOf(y, freq, priceFromYield(call.settlement, flows, y, call.dc,
                                             call.comp).val,
                     discounted(call.settlement,
                                OnOrAfter(normalizeCashflows(flows), call.settlement), y,
                                call.dc, call.comp))
\* C9's case: statistics under semi-annual compounding
StatsAtSemiAnnual ==
  /\ call.op = "riskStats"
  /\ call.comp = "SEMI"
  /\ call.shape = << <<1, FromInt(100)>> >>
  /\ call.yieldInput = Ratio(5, 100)
  /\ call.res.err = "none"
  /\ call.res.val.price = toFixed8(Over(FromInt(100), Times(Decimal(10250, 1),
                                                           Decimal(10250, 1))))

\* C10: accruedInterest returns 0 when the last or the next coupon date is
\* absent, when the coupon amount is not finite, when yearFrac(last, next) <= 0
\* or when yearFrac(last, settlement) <= 0, and otherwise returns
\* coupon * yearFrac(last, settlement) / yearFrac(last, next) rounded to 8
\* decimals (an unsupported day count raises, as it does in yearFrac).
AccruedInterestCases ==
  (call.op = "accruedInterest") =>
    LET period == yearFrac(call.dc, call.lastCouponISO, call.nextCouponISO)
        accrued == yearFrac(call.dc, call.lastCouponISO, call.settlement)
    IN  IF \/ call.lastCouponISO = NullDate
           \/ call.nextCouponISO = NullDate
           \/ ~IsFinite(call.couponPerPeriod) THEN call.res = Ok(Zero)
        ELSE IF period.err # "none" THEN call.res.err = period.err
        ELSE IF Le(period.val, Zero) THEN call.res = Ok(Zero)
        ELSE IF accrued.err # "none" THEN call.res.err = accrued.err
        ELSE IF Le(accrued.val, Zero) THEN call.res = Ok(Zero)
        ELSE call.res = Ok(toFixed8(Over(Times(call.couponPerPeriod, accrued.val),
                                         period.val)))
\* C10's case: interest accrued part of the way through a coupon period
AccruedMidPeriod ==
  /\ call.op = "accruedInterest"
  /\ call.dc = "30360US"
  /\ call.lastCouponISO = ISO(2024, 1, 31)
  /\ call.settlement = ISO(2024, 3, 15)
  /\ call.nextCouponISO = ISO(2024, 7, 31)
  /\ call.couponPerPeriod = FromInt(4)
  /\ call.res = Ok(FromInt(1))

\* C11, as stated: for a coupon amount that is not negative and dates
\* last <= settlement <= next with last < next, under every supported day
\* count accruedInterest does not fall as settlement moves on, never exceeds
\* the coupon amount, and is the coupon amount when settlement is next.
AccruedUpToCoupon ==
  (/\ call.op = "accruedInterest"
   /\ call.dc \in {"ACT365F", "ACT360", "act360", "30360US", "30/360-US"}
   /\ IsFinite(call.couponPerPeriod)
   /\ Ge(call.couponPerPeriod, Zero)
   /\ call.lastCouponISO # NullDate
   /\ call.nextCouponISO # NullDate
   /\ coerceDate(call.lastCouponISO) < coerceDate(call.nextCouponISO)
   /\ coerceDate(call.lastCouponISO) <= coerceDate(call.settlement)
   /\ coerceDate(call.settlement) <= coerceDate(call.nextCouponISO)) =>
    /\ \A later \in AccrualSettlements :
         (/\ coerceDate(call.settlement) <= coerceDate(later)
          /\ coerceDate(later) <= coerceDate(call.nextCouponISO)) =>
           Le(call.res.val,
              accruedInterest(call.dc, call.lastCouponISO, later, call.nextCouponISO,
                              call.couponPerPeriod).val)
    /\ Le(call.res.val, call.couponPerPeriod)
    /\ call.settlement = call.nextCouponISO => call.res.val = call.couponPerPeriod

\* C11, amended: under the same conditions accruedInterest does not fall as
\* settlement moves on, never exceeds the coupon amount rounded to 8 decimals,
\* and when settlement is next it is the coupon amount rounded to 8 decimals
\* if yearFrac(last, next) > 0, and 0 if not (under 30/360 US, from the 30th
\* to the 31st of a month).
AccruedUpToRoundedCoupon ==
  (/\ call.op = "accruedInterest"
   /\ call.dc \in {"ACT365F", "ACT360", "act360", "30360US", "30/360-US"}
   /\ IsFinite(call.couponPerPeriod)
   /\ Ge(call.couponPerPeriod, Zero)
   /\ call.lastCouponISO # NullDate
   /\ call.nextCouponISO # NullDate
   /\ coerceDate(call.lastCouponISO) < coerceDate(call.nextCouponISO)
   /\ coerceDate(call.lastCouponISO) <= coerceDate(call.settlement)
   /\ coerceDate(call.settlement) <= coerceDate(call.nextCouponISO)) =>
    /\ call.res.err = "none"
    /\ \A later \in AccrualSettlements :
         (/\ coerceDate(call.settlement) <= coerceDate(later)
          /\ coerceDate(later) <= coerceDate(call.nextCouponISO)) =>
           Le(call.res.val,
              accruedInterest(call.dc, call.lastCouponISO, later, call.nextCouponISO,
                              call.couponPerPeriod).val)
    /\ Le(call.res.val, toFixed8(call.couponPerPeriod))
    /\ call.settlement = call.nextCouponISO =>
         call.res.val =
           IF Gt(yearFrac(call.dc, call.lastCouponISO, call.nextCouponISO).val, Zero)
             THEN toFixed8(call.couponPerPeriod) ELSE Zero
\* C11's case: settlement on the next coupon date, a coupon of 0.000123456789
AccruedWholeCoupon ==
  /\ call.op = "accruedInterest"
  /\ call.dc = "30/360-US"
  /\ call.lastCouponISO = ISO(2024, 1, 31)
  /\ call.settlement = ISO(2024, 7, 31)
  /\ call.nextCouponISO = ISO(2024, 7, 31)
  /\ call.couponPerPeriod = Decimal(123456789, 3)
  /\ call.res = Ok(Decimal(12346, 2))


\* C12: for a coupon-date list in any order and any settlement date,
\* adjacentCoupons returns as last the latest coupon date <= settlement and as
\* next the earliest coupon date > settlement, each null if there is no such
\* date; when both exist, last <= settlement < next and no coupon date lies
\* strictly between them.
AdjacentCouponsBracket ==
  call.op = "adjacentCoupons" =>
    LET settled == coerceDate(call.settlement)
        upTo == {i \in 1..Len(call.dates) : coerceDate(call.dates[i]) <= settled}
        after == {i \in 1..Len(call.dates) : coerceDate(call.dates[i]) > settled}
    IN  /\ upTo = {} => call.res.last = NullDate
        /\ upTo # {} =>
             /\ \E i \in upTo : call.dates[i] = call.res.last
             /\ \A i \in upTo : coerceDate(call.dates[i]) <= coerceDate(call.res.last)
        /\ after = {} => call.res.next = NullDate
        /\ after # {} =>
             /\ \E i \in after : call.dates[i] = call.res.next
             /\ \A i \in after : coerceDate(call.res.next) <= coerceDate(call.dates[i])
        /\ (upTo # {} /\ after # {}) =>
             /\ coerceDate(call.res.last) <= settled
             /\ settled < coerceDate(call.res.next)
             /\ \A i \in 1..Len(call.dates) :
                  ~(/\ coerceDate(call.res.last) < coerceDate(call.dates[i])
                    /\ coerceDate(call.dates[i]) < coerceDate(call.res.next))
\* C12's case: the dates out of order, settlement between two of them
AdjacentOfUnsorted ==
  /\ call.op = "adjacentCoupons"
  /\ call.dates = <<ISO(2025, 1, 31), ISO(2024, 1, 31), ISO(2024, 7, 31)>>
  /\ call.settlement = ISO(2024, 3, 15)
  /\ call.res = [last |-> ISO(2024, 1, 31), next |-> ISO(2024, 7, 31)]


\* C13: buildSchedule never truncates silently: a schedule it returns runs to
\* maturity, its last coupon date on or after maturityDate; terms that need
\* more than SafetyCap periods fail instead of returning SafetyCap periods
\* that end before maturity.
ScheduleNeverTruncated ==
  (call.op = "buildSchedule" /\ call.res.err = "none") =>
    LET couponDates == call.res.val.couponDates
    IN  /\ couponDates # <<>>
        /\ coerceDate(couponDates[Len(couponDates)]) >= coerceDate(call.terms.maturityDate)


\* C14: for terms with issueDate < maturityDate that need at most SafetyCap
\* periods (the schedule returned is not cut short of maturity), every coupon
\* date of the schedule is the last calendar day of its month, and the final
\* coupon date, the one that carries the redemption, is endOfMonth(maturityDate).
CouponDatesAreMonthEnds ==
  (/\ call.op = "buildSchedule"
   /\ call.res.err = "none"
   /\ coerceDate(call.terms.issueDate) < coerceDate(call.terms.maturityDate)
   /\ coerceDate(call.res.val.couponDates[Len(call.res.val.couponDates)])
        >= coerceDate(call.terms.maturityDate)) =>
    /\ \A i \in 1..Len(call.res.val.couponDates) :
         getUTCDate(coerceDate(call.res.val.couponDates[i]) + 1) = 1
    /\ call.res.val.couponDates[Len(call.res.val.couponDates)]
         = endOfMonth(call.terms.maturityDate)
    /\ call.res.val.periods[Len(call.res.val.periods)].end
         = endOfMonth(call.terms.maturityDate)
    /\ call.res.val.periods[Len(call.res.val.periods)].redemptionAmount
         = call.res.val.redemptionAmount
\* C14's case: three half-years from the 15th of March to the 10th of September
SemiAnnualMonthEnds ==
  /\ call.op = "buildSchedule"
  /\ call.terms.issueDate = ISO(2024, 3, 15)
  /\ call.terms.maturityDate = ISO(2025, 9, 10)
  /\ call.terms.freqMonths = FromInt(6)
  /\ call.res.err = "none"
  /\ call.res.val.couponDates = <<ISO(2024, 9, 30), ISO(2025, 3, 31), ISO(2025, 9, 30)>>


\* C15: when issueDate is not before maturityDate, so that the loop over
\* coupon dates produces none, buildSchedule returns exactly one period, and
\* that period spans from issueDate to maturityDate.
OnePeriodToMaturity ==
  (/\ call.op = "buildSchedule"
   /\ call.res.err = "none"
   /\ coerceDate(call.terms.issueDate) >= coerceDate(call.terms.maturityDate)) =>
    /\ Len(call.res.val.periods) = 1
    /\ call.res.val.periods[1].start = call.terms.issueDate
    /\ call.res.val.periods[1].end = call.terms.maturityDate

\* C15, amended: when issueDate is not before maturityDate, buildSchedule
\* returns exactly one period, one coupon date and one cashflow, and that
\* period spans from issueDate to endOfMonth(maturityDate), which is
\* maturityDate only if maturityDate is the last day of its month.
OnePeriodToMonthEnd ==
  (/\ call.op = "buildSchedule"
   /\ call.res.err = "none"
   /\ coerceDate(call.terms.issueDate) >= coerceDate(call.terms.maturityDate)) =>
    /\ Len(call.res.val.periods) = 1
    /\ Len(call.res.val.cashflows) = 1
    /\ call.res.val.couponDates = <<endOfMonth(call.terms.maturityDate)>>
    /\ call.res.val.periods[1].start = call.terms.issueDate
    /\ call.res.val.periods[1].end = endOfMonth(call.terms.maturityDate)
    /\ (call.res.val.periods[1].end = call.terms.maturityDate
          <=> getUTCDate(coerceDate(call.terms.maturityDate) + 1) = 1)
\* C15's case: issue and maturity both on the 15th of March
OnePeriodFromMidMonth ==
  /\ call.op = "buildSchedule"
  /\ call.terms.issueDate = ISO(2024, 3, 15)
  /\ call.terms.maturityDate = ISO(2024, 3, 15)
  /\ call.res.err = "none"
  /\ Len(call.res.val.periods) = 1
  /\ call.res.val.periods[1].start = ISO(2024, 3, 15)
  /\ call.res.val.periods[1].end = ISO(2024, 3, 31)


\* C16: in every schedule buildSchedule returns from a finite face and
\* redemption percent, each period has totalAmount = couponAmount +
\* redemptionAmount, redemptionAmount is 0 on every period but the last, on
\* the last it is face * redemptionPercent / 100, and the i-th cashflow is
\* {date: the end of period i, amount: the totalAmount of period i}.
RedemptionOnLastPeriod ==
  (/\ call.op = "buildSchedule"
   /\ call.res.err = "none"
   /\ IsFinite(call.terms.face)
   /\ IsFinite(call.terms.redemptionPct)) =>
    /\ \A i \in 1..Len(call.res.val.periods) :
         /\ call.res.val.periods[i].totalAmount
              = Plus(call.res.val.periods[i].couponAmount,
                     call.res.val.periods[i].redemptionAmount)
         /\ call.res.val.periods[i].redemptionAmount
              = IF i < Len(call.res.val.periods) THEN Zero
                ELSE Over(Times(call.terms.face, call.terms.redemptionPct), FromInt(100))
    /\ Len(call.res.val.cashflows) = Len(call.res.val.periods)
    /\ \A i \in 1..Len(call.res.val.periods) :
         call.res.val.cashflows[i] = [date |-> call.res.val.periods[i].end,
                                      amount |-> call.res.val.periods[i].totalAmount]

\* C16, amended: in every schedule buildSchedule returns, each period has
\* totalAmount = couponAmount + redemptionAmount, redemptionAmount is 0 on
\* every period but the last, on the last it is face * redemptionPercent / 100
\* rounded to 8 decimals (a face or percent that is not a finite number counts
\* as 100), and the i-th cashflow is {date: the end of period i, amount: the
\* totalAmount of period i}.
RoundedRedemptionOnLastPeriod ==
  (call.op = "buildSchedule" /\ call.res.err = "none") =>
    /\ call.res.val.periods # <<>>
    /\ \A i \in 1..Len(call.res.val.periods) :
         /\ call.res.val.periods[i].totalAmount
              = Plus(call.res.val.periods[i].couponAmount,
                     call.res.val.periods[i].redemptionAmount)
         /\ call.res.val.periods[i].redemptionAmount
              = IF i < Len(call.res.val.periods) THEN Zero
                ELSE toFixed8(Over(Times(sanitizeNumber(call.terms.face, FromInt(100)),
                                         sanitizeNumber(call.terms.redemptionPct,
                                                        FromInt(100))),
                                   FromInt(100)))
    /\ Len(call.res.val.cashflows) = Len(call.res.val.periods)
    /\ \A i \in 1..Len(call.res.val.periods) :
         call.res.val.cashflows[i] = [date |-> call.res.val.periods[i].end,
                                      amount |-> call.res.val.periods[i].totalAmount]
\* C16's case: three periods, a third of a percent of 100 redeemed on the last
RedemptionRoundedOnThird ==
  /\ call.op = "buildSchedule"
  /\ call.terms.face = FromInt(100)
  /\ call.terms.redemptionPct = Ratio(1, 3)
  /\ call.terms.couponRate = Ratio(8, 100)
  /\ call.res.err = "none"
  /\ Len(call.res.val.periods) = 3
  /\ call.res.val.periods[1].redemptionAmount = Zero
  /\ call.res.val.periods[3].redemptionAmount = Decimal(33333333, 2)
  /\ Gt(call.res.val.periods[3].couponAmount, Zero)
  /\ call.res.val.cashflows[3].amount
       = Plus(call.res.val.periods[3].couponAmount, Decimal(33333333, 2))


\* C17: under modified following (spelt MODFOLLOW or MODIFIEDFOLLOWING, in
\* either case) rollBusiness maps every weekend date to the first business
\* day after it when that day is in the month of the date, the FOLLOWING
\* result, and to the last business day before it when the forward roll
\* lands in the next month, the PRECEDING result.
ModifiedFollowingRoll ==
  (/\ call.op = "rollBusiness"
   /\ call.roll \in {"MODFOLLOW", "MODIFIEDFOLLOWING", "modfollow"}
   /\ (coerceDate(call.value) + 4) % 7 \in {0, 6}) =>
    LET date == coerceDate(call.value)
        weekend(d) == (d + 4) % 7 \in {0, 6}
        after == CHOOSE d \in (date + 1)..(date + 2) :
                   ~weekend(d) /\ \A e \in date..(d - 1) : weekend(e)
        before == CHOOSE d \in (date - 2)..(date - 1) :
                    ~weekend(d) /\ \A e \in (d + 1)..date : weekend(e)
        sameMonth == /\ CivilFromDays(after).m = call.value.m
                     /\ CivilFromDays(after).y = call.value.y
    IN  /\ rollBusiness(call.value, "FOLLOWING") = toISOString(after)
        /\ rollBusiness(call.value, "PRECEDING") = toISOString(before)
        /\ call.res = toISOString(IF sameMonth THEN after ELSE before)
\* C17's case: Saturday 30 March 2024 rolls back to Friday the 29th, Monday
\* being the 1st of April
SaturdayAtMonthEndRollsBack ==
  /\ call.op = "rollBusiness"
  /\ call.value = ISO(2024, 3, 30)
  /\ call.roll = "MODFOLLOW"
  /\ call.res = ISO(2024, 3, 29)
  /\ rollBusiness(call.value, "FOLLOWING") = ISO(2024, 4, 1)


\* C18: rollBusiness returns a business day unchanged, whatever the roll; for
\* a weekend date FOLLOWING returns the earliest later business day and
\* PRECEDING the latest earlier one.  The settlement determineSettlement
\* resolves, rollBusiness(addDays(input or today, lag), roll), is therefore
\* never a Saturday or a Sunday, for any input date, lag and roll.
RollLandsOnBusinessDay ==
  LET weekend(d) == (d + 4) % 7 \in {0, 6}
      date == coerceDate(call.value)
      after == CHOOSE d \in (date + 1)..(date + 2) :
                 ~weekend(d) /\ \A e \in date..(d - 1) : weekend(e)
      before == CHOOSE d \in (date - 2)..(date - 1) :
                  ~weekend(d) /\ \A e \in (d + 1)..date : weekend(e)
      given == IF call.settlementDate = NullDate THEN call.today ELSE call.settlementDate
  IN  /\ call.op = "rollBusiness" =>
           /\ ~weekend(coerceDate(call.res))
           /\ ~weekend(date) => call.res = call.value
           /\ (weekend(date) /\ call.roll \in {"FOLLOWING", ""}) =>
                call.res = toISOString(after)
           /\ (weekend(date) /\ call.roll = "PRECEDING") => call.res = toISOString(before)
      /\ call.op = "determineSettlement" =>
           /\ ~weekend(coerceDate(call.res))
           /\ call.res = rollBusiness(toISOString(coerceDate(given) + call.lag), call.roll)
           /\ ~weekend(coerceDate(given) + call.lag) =>
                coerceDate(call.res) = coerceDate(given) + call.lag
\* C18's case: Thursday 28 March 2024 with a lag of two days is a Saturday,
\* which an unknown roll type moves on to Monday the 1st of April
LaggedIntoWeekend ==
  /\ call.op = "determineSettlement"
  /\ call.settlementDate = ISO(2024, 3, 28)
  /\ call.lag = 2
  /\ call.roll = "NEAREST"
  /\ call.res = ISO(2024, 4, 1)


\* C19: the day-count conventions are a closed set: for every name outside
\* it, a missing name included, yearFrac fails with UnsupportedConvention
\* whatever the two dates are, end <= start included, and never computes
\* under a default convention.
UnsupportedConventionFails ==
  (call.op = "yearFrac" /\ call.dc \in {"", "ACT/ACT"}) =>
    call.res.err = "UnsupportedConvention"


\* C20: yearFrac returns 0 whenever end <= start, whatever the convention
\* name, and never a negative number; for start < end it returns the number
\* of days from start to end over 365 under ACT365F and over 360 under ACT360.
YearFracOfDays ==
  call.op = "yearFrac" =>
    LET days == coerceDate(call.end) - coerceDate(call.start)
    IN  /\ days <= 0 => call.res = Ok(Zero)
        /\ call.res.err = "none" => Ge(call.res.val, Zero)
        /\ (days > 0 /\ call.dc = "ACT365F") =>
             call.res = Ok(Over(FromInt(days), FromInt(365)))
        /\ (days > 0 /\ call.dc \in {"ACT360", "act360"}) =>
             call.res = Ok(Over(FromInt(days), FromInt(360)))
\* C20's case: the 44 days from 31 January to 15 March 2024 under ACT360
FortyFourDaysOver360 ==
  /\ call.op = "yearFrac"
  /\ call.dc = "ACT360"
  /\ call.start = ISO(2024, 1, 31)
  /\ call.end = ISO(2024, 3, 15)
  /\ call.res = Ok(Ratio(44, 360))


\* C21: under 30/360 US, for start < end, yearFrac takes a start day of 31 as
\* 30, takes an end day of 31 as 30 only when the start day so adjusted is at
\* least 30, and returns (360 (y2 - y1) + 30 (m2 - m1) + (d2 - d1)) / 360 of
\* the adjusted days: 28/360 from 2024-01-31 to 2024-02-28.
ThirtyThreeSixtyUS ==
  (/\ call.op = "yearFrac"
   /\ call.dc \in {"30360US", "30/360-US"}
   /\ coerceDate(call.start) < coerceDate(call.end)) =>
    LET d1 == IF call.start.d = 31 THEN 30 ELSE call.start.d
        d2 == IF call.end.d = 31 /\ d1 >= 30 THEN 30 ELSE call.end.d
    IN  call.res = Ok(Ratio(360 * (call.end.y - call.start.y)
                              + 30 * (call.end.m - call.start.m) + (d2 - d1), 360))
\* C21's case: from the 31st of January to the 28th of February, 28/360
ThirtyFirstToFebruary ==
  /\ call.op = "yearFrac"
  /\ call.dc = "30/360-US"
  /\ call.start = ISO(2024, 1, 31)
  /\ call.end = ISO(2024, 2, 28)
  /\ call.res = Ok(Ratio(28, 360))


\* C22: addMonths(date, n, anchorDay) returns a date in the month n months
\* after the month of date, on the day min(anchorDay, last day of that month),
\* anchorDay being the day of date when none is given: the result never
\* spills into the month after.
AddMonthsClamps ==
  call.op = "addMonths" =>
    LET months == call.value.y * 12 + (call.value.m - 1) + call.months
        year == months \div 12
        month == (months % 12) + 1
        leap == year % 4 = 0 /\ (year % 100 # 0 \/ year % 400 = 0)
        lastDay == IF month = 2 THEN (IF leap THEN 29 ELSE 28)
                   ELSE IF month \in {4, 6, 9, 11} THEN 30 ELSE 31
        referenceDay == IF call.given THEN call.anchorDay ELSE call.value.d
    IN  call.res = ISO(year, month, IF referenceDay < lastDay THEN referenceDay ELSE lastDay)
\* C22's case: a month after the 31st of January 2023, anchored on the 31st
JanuaryToFebruary ==
  /\ call.op = "addMonths"
  /\ call.value = ISO(2023, 1, 31)
  /\ call.months = 1
  /\ call.given
  /\ call.anchorDay = 31
  /\ call.res = ISO(2023, 2, 28)
  /\ addMonths(ISO(2024, 1, 31), 1, 31) = ISO(2024, 2, 29)


\* C23: compareISO(a, b) returns one of the three values -1, 0 and 1 for every
\* pair of dates: -1 when a is before b, 0 when they are the same calendar
\* day, 1 when a is after b.
CompareIsMinusOneZeroOne ==
  call.op = "compareISO" =>
    call.res = IF coerceDate(call.a) < coerceDate(call.b) THEN FromInt(-1)
               ELSE IF coerceDate(call.a) = coerceDate(call.b) THEN Zero
               ELSE One


\* C24: toISO fails with InvalidDate for every input that is not a parsable
\* calendar date: nothing, a string that is no date, and a YYYY-MM-DD string
\* whose month or day does not exist (2023-02-30); it never answers such an
\* input with a date.
NoDateIsRefused ==
  LET leap(y) == y % 4 = 0 /\ (y % 100 # 0 \/ y % 400 = 0)
      lastDay(y, m) == IF m = 2 THEN (IF leap(y) THEN 29 ELSE 28)
                       ELSE IF m \in {4, 6, 9, 11} THEN 30 ELSE 31
      exists(v) == v.m \in 1..12 /\ v.d \in 1..lastDay(v.y, v.m)
  IN  (/\ call.op = "toISO"
       /\ \/ call.value.kind \in {"null", "text"}
          \/ call.value.kind = "iso" /\ ~exists(call.value))
      => call.res.err = "InvalidDate"

\* C25: for an input that carries a date with a time and a UTC offset, toISO
\* returns the calendar day written in the input, whatever the time and the
\* offset are, and toISO of the result is the result again.
TimeAndOffsetDiscarded ==
  (call.op = "toISO" /\ call.value.kind = "datetime")
  => /\ call.res = Ok(ISO(call.value.y, call.value.m, call.value.d))
     /\ toISOResult(call.res.val) = call.res


IterateInDomain ==
  (\/ ytm.pc = "loop"
   \/ ytm.pc = "returned" /\ ytm.how \in {"converged", "cap"})
  => /\ IsFinite(ytm.y)
     /\ Gt(ytm.y, DomainFloor)
\* a pass whose step was put back to 0.0001
IterateReset ==
  /\ ytm.pc = "loop"
  /\ ytm.iteration >= 1
  /\ ytm.y = ResetYield


\* C28: in every pass of the loop of ytmFromPrice the three prices, the one
\* compared with the target and the two of the central difference, are the
\* discounted prices at y, y + 1e-5 and y - 1e-5 themselves, also when the
\* iterate is above 1.5 in magnitude.
SolverPricesAtIterate ==
  (ytm.pc = "loop" /\ ytm.iteration < maxIterations)
  => \A at \in {ytm.y, Plus(ytm.y, epsilon), Minus(ytm.y, epsilon)} :
       ytmPriceAt(ytm, at) = PriceAt(ytm.settlement, ytm.cashflows, at, ytm.dc, ytm.comp)


\* C29: in a pricing response the yield reported as ytm is the yield at which
\* the reported dirty price and risk statistics were discounted, for every
\* numeric quote.yield, those above 150 in magnitude included.
ReportedYieldIsTheOneUsed ==
  LET settlement == toISO(call.settlement)
      cashflows == OnOrAfter(normalizeCashflows(Flows(call.shape, call.settlement, call.dc)),
                             settlement)
      at(y) == StatsWith(settlement, cashflows, y, call.dc, call.comp,
                         PriceAt(settlement, cashflows, y, call.dc, call.comp))
  IN  (call.op = "priceRoute" /\ call.res.status = 200 /\ IsFinite(call.yieldInput))
      => Ok(call.res.risk) = at(call.res.ytm)


\* C30: for every input with issueDate < maturityDate and any freqMonths,
\* buildSchedule returns between 1 and SafetyCap coupon dates, strictly
\* increasing and all after issueDate, and periods of which the first starts
\* at issueDate and each later one at the end of the one before.
ScheduleTilesFromIssue ==
  (/\ call.op = "buildSchedule"
   /\ call.terms.issueDate.kind = "iso"
   /\ call.terms.maturityDate.kind = "iso"
   /\ coerceDate(call.terms.issueDate) < coerceDate(call.terms.maturityDate))
  => /\ call.res.err = "none"
     /\ Len(call.res.val.couponDates) \in 1..SafetyCap
     /\ \A i \in 1..Len(call.res.val.couponDates) :
          coerceDate(call.res.val.couponDates[i])
            > coerceDate(IF i = 1 THEN call.terms.issueDate
                         ELSE call.res.val.couponDates[i - 1])
     /\ Len(call.res.val.periods) = Len(call.res.val.couponDates)
     /\ \A i \in 1..Len(call.res.val.periods) :
          /\ call.res.val.periods[i].end = call.res.val.couponDates[i]
          /\ call.res.val.periods[i].start
               = IF i = 1 THEN toISO(call.terms.issueDate)
                 ELSE call.res.val.periods[i - 1].end

\* C30, amended: the same for every input with issueDate < maturityDate, any
\* freqMonths and a dayCount that yearFrac supports; with another dayCount
\* buildSchedule throws UnsupportedConvention at its first period.
SupportedScheduleTilesFromIssue ==
  LET dayCountConvention ==
        ToUpperCase(IF call.terms.dayCount = "" THEN "ACT365F" ELSE call.terms.dayCount)
  IN  (/\ call.op = "buildSchedule"
       /\ call.terms.issueDate.kind = "iso"
       /\ call.terms.maturityDate.kind = "iso"
       /\ coerceDate(call.terms.issueDate) < coerceDate(call.terms.maturityDate))
      => IF yearFrac(dayCountConvention, call.terms.issueDate,
                     call.terms.maturityDate).err = "none"
           THEN ScheduleTilesFromIssue
         ELSE call.res.err = "UnsupportedConvention"
\* C30's case: a freqMonths of -3 taken as 1, a coupon date every month end
NegativeFrequencyIsMonthly ==
  /\ call.op = "buildSchedule"
  /\ call.terms.freqMonths = FromInt(-3)
  /\ call.terms.issueDate = ISO(2024, 3, 15)
  /\ call.terms.maturityDate = ISO(2025, 9, 10)
  /\ call.res.err = "none"
  /\ Len(call.res.val.couponDates) = 18
  /\ call.res.val.couponDates[1] = ISO(2024, 4, 30)
  /\ call.res.val.periods[2].start = ISO(2024, 4, 30)

=============================================================================
